---- MODULE Spec2Model ----
(***************************************************************************)
(* RL-based QoS allocation: the live Ryu controller (decision loop,        *)
(* enforcement of queue rules, port statistics), the replay buffers and    *)
(* the Double-DQN agent and the simulated environment of                  *)
(* src/rl-qos-system.                                                      *)
(*                                                                         *)
(* The specifications share the variables:                                 *)
(*   Spec       the live controller: switch registration, the decision     *)
(*              loop, the monitor loop and the flow table of the devices,  *)
(*              with time in seconds;                                      *)
(*   SpecFair   Spec with the fair scheduling of its loops;                *)
(*   SpecBuf    SimpleReplayBuffer and PrioritizedReplayBuffer;            *)
(*   SpecAgent  DDQNAgent: store_experience, train_step,                   *)
(*              update_target_network, load_model;                         *)
(*   SpecSelect DDQNAgent: select_action, load_model;                      *)
(*   SpecStats  the port statistics reply handler and the state estimator; *)
(*   SpecState  the state vectors of the controller's estimator and of     *)
(*              NetworkEnvironment.                                        *)
(* Each specification leaves the variables of the others at their initial  *)
(* values.                                                                 *)
(***************************************************************************)
EXTENDS Integers, Sequences, FiniteSets, TLC

VARIABLES
    \* ---- RLQoSController ------------------------------------------------
    datapaths,        \* self.datapaths: dpids in insertion order (a dict)
    flow_table,       \* per device: the flow entries it holds
    mac_to_port,      \* self.mac_to_port: per device, the port of each address
    current_action,   \* self.current_action
    rl_agent,         \* self.rl_agent: "None", or the mode of its policy_net
    rl_pc,            \* _rl_decision_loop: "wait" (first loop) or "run"
    rl_sleep,         \* seconds left of the decision loop's hub.sleep
    cycle,            \* what the last decision cycle did
    prev_cycle,       \* what the decision cycle before it did
    installed,        \* action of the last Apply that returned, NoAction if none
    mon_pc,           \* _monitor_loop: "run", or "dead" once an exception left it
    mon_sleep,        \* seconds left of the monitor loop's hub.sleep
    mon,              \* what the last pass of the monitor loop did
    stop_requested,   \* an external stop signal has been given
    port_stats,       \* self.port_stats (a defaultdict; Absent = no key)
    current_bandwidth,\* self.current_bandwidth (Absent = no key)
    reply,            \* what the last port statistics reply did
    left,             \* the device behind the port statistics has disconnected
    net_state,        \* what the last _get_network_state returned
    \* ---- replay buffers -------------------------------------------------
    capacity,         \* capacity of both buffers
    sbuf,             \* SimpleReplayBuffer.buffer (a deque with maxlen)
    pbuf,             \* PrioritizedReplayBuffer.buffer
    priorities,       \* PrioritizedReplayBuffer.priorities
    pos,              \* PrioritizedReplayBuffer.pos
    spushed,          \* every experience pushed to sbuf, in order
    ppushed,          \* every experience pushed to pbuf, in order
    \* ---- DDQNAgent ------------------------------------------------------
    policy_net,       \* policy_net.state_dict(): parameters and BatchNorm1d buffers
    policy_training,  \* policy_net.training (train mode: BatchNorm, Dropout)
    target_net,       \* target_net.state_dict() (the network is always in eval mode)
    optimizer_steps,  \* optimizer state: number of optimizer.step() calls
    training_steps,   \* self.training_steps
    memory,           \* self.memory.buffer
    gamma,            \* self.gamma, in hundredths
    ret,              \* what the last agent call returned and computed
    last_sync,        \* what the last construction, sync or load left
    \* ---- NetworkEnvironment ---------------------------------------------
    handler,          \* _port_stats_reply_handler: where it is in a reply
    env,              \* the simulated environment and what it last returned
    \* ---- DDQNAgent: exploration and persistence -------------------------
    epsilon,          \* self.epsilon, in hundredths
    steps,            \* self.steps
    disk,             \* the model files on disk, by path
    \* ---- RLTrainer ------------------------------------------------------
    trainer           \* the trainer's fields and the position of train()

ctl_vars == <<datapaths, flow_table, mac_to_port, current_action, rl_agent, rl_pc, rl_sleep,
              cycle, prev_cycle, installed, mon_pc, mon_sleep, mon,
              stop_requested>>
stats_vars == <<port_stats, current_bandwidth, reply, left, net_state,
                handler>>
buf_vars == <<capacity, sbuf, pbuf, priorities, pos, spushed, ppushed>>
agent_vars == <<policy_net, policy_training, target_net, optimizer_steps,
                training_steps, memory, gamma, ret, last_sync>>
env_vars == <<env>>
sched_vars == <<epsilon, steps>>
train_vars == <<disk, trainer>>
vars == <<ctl_vars, stats_vars, buf_vars, agent_vars, env_vars, sched_vars,
          train_vars>>

Min(a, b) == IF a < b THEN a ELSE b
Max(a, b) == IF a > b THEN a ELSE b

(***************************************************************************)
(* Bounds of the model.                                                    *)
(***************************************************************************)
MaxDpid == 2          \* devices that may register: dpids 1..MaxDpid
MaxCapacity == 3      \* replay buffer capacities 1..MaxCapacity
MaxPushes == 5        \* pushes per buffer
MaxReplies == 2       \* stats replies followed statement by statement
MaxSteps == 2         \* optimizer steps of the agent

(***************************************************************************)
(* Program constants.                                                      *)
(***************************************************************************)
InitialAction == 1        \* current_action at construction: balanced
DefaultAction == 1        \* the action served when rl_agent is None
QosPriority == 10         \* priority of the QoS rules
QosHardTimeout == 5       \* hard_timeout of the QoS rules, seconds
MacPriority == 1          \* priority of the entries of learned addresses
DecisionPeriod == 2       \* hub.sleep(2) of the decision loop
WaitPeriod == 1           \* hub.sleep(1) while no device has registered
MonitorPeriod == 1        \* hub.sleep(1) of the monitor loop
ActionDim == 3            \* action_dim
MaxPortNo == 10000        \* ports above it are skipped by the stats handler

Actions == 0 .. (ActionDim - 1)
NoAction == ActionDim     \* outside the action set: nothing selected or applied
DPIDs == 1 .. MaxDpid

(***************************************************************************)
(* RLQoSController: the tables set at construction.                        *)
(***************************************************************************)
Classes == {"work", "entertainment"}

\* self.device_ports
device_ports == [c \in Classes |-> IF c = "work" THEN {1, 2} ELSE {3, 4}]

ClassPorts == device_ports["work"] \cup device_ports["entertainment"]

ClassOf(port) == IF port \in device_ports["work"] THEN "work" ELSE "entertainment"

\* The order in which _apply_qos_policy installs the rules: work ports, then
\* entertainment ports.
ApplyOrder == <<1, 2, 3, 4>>

\* self.queue_config[action][class]
queue_config(action, class) ==
    CASE action = 0 -> (IF class = "work" THEN 0 ELSE 2)
      [] action = 1 -> (IF class = "work" THEN 1 ELSE 1)
      [] OTHER      -> (IF class = "work" THEN 2 ELSE 0)

(***************************************************************************)
(* The flow table of a device.  An entry is a flow-mod the device took:    *)
(* priority, the in_port it matches (AnyPort for the empty match), the     *)
(* addresses eth_dst and eth_src it matches (AnyMac when the match names   *)
(* none), the queue its actions set (NoQueue when they set none), the      *)
(* learned port its actions output to (NoOutPort when they output to the   *)
(* controller or to OFPP_NORMAL), its hard_timeout (0: permanent) and its  *)
(* age in seconds.                                                         *)
(***************************************************************************)
AnyPort == 0 - 1
NoQueue == 0 - 1
AnyMac == "any"
NoOutPort == 0 - 1

FlowEntry(priority, in_port, queue, hard_timeout) ==
    [priority |-> priority, in_port |-> in_port, eth_dst |-> AnyMac,
     eth_src |-> AnyMac, queue |-> queue, out_port |-> NoOutPort,
     hard_timeout |-> hard_timeout, age |-> 0]

\* A variant that keeps the entries the new one should replace.
AddFlowKeepOld(table, priority, in_port, queue, hard_timeout) ==
    table \cup {FlowEntry(priority, in_port, queue, hard_timeout)}

\* _add_flow: an OFPFlowMod with the default command (add) and no flags; the
\* device replaces the entry of the same priority and match.
AddFlow(table, priority, in_port, queue, hard_timeout) ==
    {e \in table : ~(/\ e.priority = priority
                      /\ e.in_port = in_port
                      /\ e.eth_dst = AnyMac
                      /\ e.eth_src = AnyMac)}
        \cup {FlowEntry(priority, in_port, queue, hard_timeout)}

\* The entry _packet_in_handler installs for a known destination: match
\* (in_port, eth_dst, eth_src), one action OFPActionOutput(out_port), no
\* timeout.
MacFlowEntry(in_port, dst, src, out_port) ==
    [FlowEntry(MacPriority, in_port, NoQueue, 0) EXCEPT
        !.eth_dst = dst, !.eth_src = src, !.out_port = out_port]

\* _add_flow(datapath, 1, match, actions) of _packet_in_handler.
AddMacFlow(table, in_port, dst, src, out_port) ==
    {e \in table : ~(/\ e.priority = MacPriority
                      /\ e.in_port = in_port
                      /\ e.eth_dst = dst
                      /\ e.eth_src = src)}
        \cup {MacFlowEntry(in_port, dst, src, out_port)}

\* One second passes on a device: entries with a hard_timeout age and leave
\* the table when the timeout is reached.
AgeTable(table) ==
    {IF e.hard_timeout = 0 THEN e ELSE [e EXCEPT !.age = e.age + 1] :
        e \in {x \in table : x.hard_timeout = 0 \/ x.age + 1 < x.hard_timeout}}

\* The QoS rules of a device for a port.
QosRules(table, port) ==
    {e \in table : e.priority = QosPriority /\ e.in_port = port}

\* _apply_qos_policy's two loops, cut short after n installs (n = 4: all).
RECURSIVE ApplyFlows(_, _, _)
ApplyFlows(table, action, n) ==
    IF n = 0 THEN table
    ELSE AddFlow(ApplyFlows(table, action, n - 1), QosPriority, ApplyOrder[n],
                 queue_config(action, ClassOf(ApplyOrder[n])), QosHardTimeout)


(***************************************************************************)
(* DDQNAgent.select_action.  Numbers in [0, 1] are in hundredths: epsilon   *)
(* 1.0 is 100, and random.random() draws r with 0 <= r < 100.               *)
(***************************************************************************)
Epsilons == {0, 50, 100}
RandomDraws == {0, 99}

\* The Q vectors a network may put out for a state (entry a + 1: action a).
QVectors == {<<1, 1, 0>>, <<0, 2, 2>>, <<0, 1, 3>>}

\* q.argmax(): the first index of the maximal value.
Argmax(q) ==
    CHOOSE a \in Actions :
        /\ \A b \in Actions : q[b + 1] <= q[a + 1]
        /\ \A b \in Actions : b < a => q[b + 1] < q[a + 1]

\* A variant whose upper end is one too far.
RandIntRangeInclusive(action_dim) == 0 .. action_dim

\* random.randint(0, action_dim - 1): what it may return.
RandIntRange(action_dim) == 0 .. (action_dim - 1)

\* select_action(state, epsilon), where q is what policy_net computes for the
\* state in eval mode, training is policy_net.training, r is the draw of
\* random.random() and k the draw of random.randint.  In train mode the
\* BatchNorm1d layers refuse a batch of one state: the forward pass raises.
SelectAction(q, training, eps, r, k) ==
    IF r < eps
    THEN [raised |-> FALSE, action |-> k, branch |-> "explore"]
    ELSE IF training
         THEN [raised |-> TRUE, action |-> NoAction, branch |-> "greedy"]
         ELSE [raised |-> FALSE, action |-> Argmax(q), branch |-> "greedy"]

(***************************************************************************)
(* RLQoSController: registration of a device, the decision loop, time.     *)
(***************************************************************************)
NoCycle ==
    [ran |-> FALSE, selected |-> NoAction, before |-> InitialAction,
     invoked |-> FALSE, sent |-> 0, failed |-> FALSE, selector |-> "none",
     epsilon |-> 0]

NoMon == [ran |-> FALSE, polled |-> <<>>, raised |-> FALSE]

\* _load_rl_agent, by what it finds at data/models/ddqn_best.pth: a bundle
\* that loads gives a loaded agent (policy_net in eval mode), a missing file
\* gives the agent as constructed (policy_net in train mode), and a bundle
\* whose loading raises gives None.
Bundles == {"ok", "missing", "incompatible"}

LoadRlAgent(bundle) ==
    CASE bundle = "ok"      -> "eval"
      [] bundle = "missing" -> "train"
      [] OTHER              -> "None"

InSeq(x, seq) == \E i \in 1 .. Len(seq) : seq[i] = x

\* switch_features_handler: the device enters self.datapaths (a key that is
\* already there keeps its place) and gets the table-miss entry.
SwitchFeatures(dpid) ==
    /\ datapaths' = IF InSeq(dpid, datapaths) THEN datapaths
                                              ELSE Append(datapaths, dpid)
    /\ flow_table' = [flow_table EXCEPT ![dpid] = AddFlow(@, 0, AnyPort, NoQueue, 0)]
    /\ UNCHANGED <<current_action, rl_agent, rl_pc, rl_sleep, cycle, prev_cycle,
                   installed, mon_pc, mon_sleep, mon, stop_requested>>
    /\ UNCHANGED mac_to_port
    /\ UNCHANGED <<stats_vars, buf_vars, agent_vars, env_vars, sched_vars,
                   train_vars>>

\* The addresses of the network (ff: the broadcast address) and the packets
\* a device may hand to the controller: host aa, on port 1, broadcasts, and
\* host bb, on port 3, sends to aa.
Macs == {"aa", "bb", "ff"}
Packets ==
    {[in_port |-> 1, src |-> "aa", dst |-> "ff"],
     [in_port |-> 3, src |-> "bb", dst |-> "aa"]}
PacketDevices == {1}
Unlearned == 0 - 1

\* _packet_in_handler for a packet of a registered device.  A packet whose
\* ethertype is ETH_TYPE_LLDP is ignored.  Of any other packet p the source
\* is learned first; a destination that is then known gets a permanent entry
\* of priority 1, an unknown one is flooded and no entry is installed.
\* msg.buffer_id only decides whether the flow-mod carries the buffer (and
\* ends the handler) or an OFPPacketOut follows it: neither changes a table.
PacketIn(dpid) ==
    /\ InSeq(dpid, datapaths)
    /\ \/ UNCHANGED <<mac_to_port, flow_table>>
       \/ \E p \in Packets :
            LET learned == [mac_to_port[dpid] EXCEPT ![p.src] = p.in_port]
                out_port == learned[p.dst]
            IN  /\ mac_to_port' = [mac_to_port EXCEPT ![dpid] = learned]
                /\ flow_table' =
                       IF out_port # Unlearned
                       THEN [flow_table EXCEPT
                               ![dpid] = AddMacFlow(@, p.in_port, p.dst, p.src,
                                                    out_port)]
                       ELSE flow_table
    /\ UNCHANGED <<datapaths, current_action, rl_agent, rl_pc, rl_sleep, cycle,
                   prev_cycle, installed, mon_pc, mon_sleep, mon, stop_requested>>
    /\ UNCHANGED <<stats_vars, buf_vars, agent_vars, env_vars, sched_vars,
                   train_vars>>

\* _rl_decision_loop, first loop: sleep while no device has registered.
RlWait ==
    /\ rl_pc = "wait"
    /\ rl_sleep = 0
    /\ IF datapaths = <<>>
       THEN rl_sleep' = WaitPeriod /\ rl_pc' = rl_pc
       ELSE rl_sleep' = rl_sleep /\ rl_pc' = "run"
    /\ UNCHANGED <<datapaths, flow_table, current_action, rl_agent, cycle,
                   prev_cycle, installed, mon_pc, mon_sleep, mon, stop_requested>>
    /\ UNCHANGED mac_to_port
    /\ UNCHANGED <<stats_vars, buf_vars, agent_vars, env_vars, sched_vars,
                   train_vars>>

\* A variant of the test that applies in every cycle.
PolicyChangedAlways(action, current) == TRUE

\* The test of the decision cycle: action != self.current_action.
PolicyChanged(action, current) == action # current

\* A variant that records the selected action before the Apply has returned.
ActionAfterApplyEager(action, current, returned) == action

\* self._apply_qos_policy(action); self.current_action = action: the
\* assignment is reached only when the Apply returned.
ActionAfterApply(action, current, returned) ==
    IF returned THEN action ELSE current

\* One pass of the decision loop's body and its hub.sleep(2).  q is the
\* policy's output for the state of this cycle; sends_ok is the number of
\* send_msg calls of _apply_qos_policy that return before one raises (4: none
\* raises).  An exception ends the body in the except clause.
RlDecisionCycle ==
    /\ rl_pc = "run"
    /\ rl_sleep = 0
    /\ \E sel \in {IF rl_agent = "None"
                   THEN [raised |-> FALSE, action |-> DefaultAction, branch |-> "none"]
                   ELSE SelectAction(q, rl_agent = "train", 0, r, 0) :
                       q \in QVectors, r \in RandomDraws},
           sends_ok \in 0 .. Len(ApplyOrder) :
        LET selector == IF rl_agent = "None" THEN "default" ELSE "select_action"
            dp == datapaths[1]
        IN  IF sel.raised
            THEN /\ cycle' = [ran |-> TRUE, selected |-> NoAction,
                              before |-> current_action, invoked |-> FALSE,
                              sent |-> 0, failed |-> TRUE,
                              selector |-> "select_action", epsilon |-> 0]
                 /\ UNCHANGED <<flow_table, current_action, installed>>
            ELSE IF PolicyChanged(sel.action, current_action)
            THEN /\ flow_table' = [flow_table EXCEPT
                                     ![dp] = ApplyFlows(@, sel.action, sends_ok)]
                 /\ cycle' = [ran |-> TRUE, selected |-> sel.action,
                              before |-> current_action, invoked |-> TRUE,
                              sent |-> sends_ok,
                              failed |-> sends_ok < Len(ApplyOrder),
                              selector |-> selector, epsilon |-> 0]
                 /\ current_action' = ActionAfterApply(sel.action, current_action,
                                                       sends_ok = Len(ApplyOrder))
                 /\ installed' = IF sends_ok = Len(ApplyOrder) THEN sel.action
                                                               ELSE NoAction
            ELSE /\ sends_ok = Len(ApplyOrder)
                 /\ cycle' = [ran |-> TRUE, selected |-> sel.action,
                              before |-> current_action, invoked |-> FALSE,
                              sent |-> 0, failed |-> FALSE,
                              selector |-> selector, epsilon |-> 0]
                 /\ UNCHANGED <<flow_table, current_action, installed>>
    /\ prev_cycle' = cycle
    /\ rl_sleep' = DecisionPeriod
    /\ UNCHANGED <<datapaths, rl_agent, rl_pc, mon_pc, mon_sleep, mon,
                   stop_requested>>
    /\ UNCHANGED mac_to_port
    /\ UNCHANGED <<stats_vars, buf_vars, agent_vars, env_vars, sched_vars,
                   train_vars>>

\* One pass of _monitor_loop: a query to every known device, in the order of
\* self.datapaths, then hub.sleep(1).  sends_ok is the number of
\* _request_stats calls that return before one raises; the loop has no
\* handler, so an exception ends the green thread.
MonitorCycle ==
    /\ mon_pc = "run"
    /\ mon_sleep = 0
    /\ \E sends_ok \in 0 .. Len(datapaths) :
        IF sends_ok = Len(datapaths)
        THEN /\ mon' = [ran |-> TRUE, polled |-> datapaths, raised |-> FALSE]
             /\ mon_sleep' = MonitorPeriod
             /\ mon_pc' = mon_pc
        ELSE /\ mon' = [ran |-> TRUE, polled |-> SubSeq(datapaths, 1, sends_ok),
                        raised |-> TRUE]
             /\ mon_sleep' = mon_sleep
             /\ mon_pc' = "dead"
    /\ UNCHANGED <<datapaths, flow_table, current_action, rl_agent, rl_pc,
                   rl_sleep, cycle, prev_cycle, installed, stop_requested>>
    /\ UNCHANGED mac_to_port
    /\ UNCHANGED <<stats_vars, buf_vars, agent_vars, env_vars, sched_vars,
                   train_vars>>

\* An external stop signal reaches the application.  The class defines no
\* stop or close method and keeps no flag the loops read: both loops are
\* while True and were started with hub.spawn.
StopSignal ==
    /\ ~stop_requested
    /\ stop_requested' = TRUE
    /\ UNCHANGED <<datapaths, flow_table, current_action, rl_agent, rl_pc,
                   rl_sleep, cycle, prev_cycle, installed, mon_pc, mon_sleep, mon>>
    /\ UNCHANGED mac_to_port
    /\ UNCHANGED <<stats_vars, buf_vars, agent_vars, env_vars, sched_vars,
                   train_vars>>

\* One second passes: the sleeping loops get nearer to waking, the timed
\* entries of every device age.  A loop that is due runs first.
Tick ==
    /\ rl_sleep > 0
    /\ mon_pc = "run" => mon_sleep > 0
    /\ rl_sleep' = rl_sleep - 1
    /\ mon_sleep' = Max(0, mon_sleep - 1)
    /\ flow_table' = [d \in DPIDs |-> AgeTable(flow_table[d])]
    /\ UNCHANGED <<datapaths, current_action, rl_agent, rl_pc, cycle, prev_cycle,
                   installed, mon_pc, mon, stop_requested>>
    /\ UNCHANGED mac_to_port
    /\ UNCHANGED <<stats_vars, buf_vars, agent_vars, env_vars, sched_vars,
                   train_vars>>


(***************************************************************************)
(* The replay buffers.  In SpecBuf an experience is the number of the push *)
(* that stored it, so every pushed experience is distinct.  Priorities are *)
(* in units of 1e-5.                                                       *)
(***************************************************************************)
PriorityOne == 100000     \* 1.0, the priority of a push into an empty buffer

\* SimpleReplayBuffer.push: append to a deque(maxlen=capacity); a full deque
\* drops the element at its other end.
SimplePush(buf, cap, e) ==
    LET b == Append(buf, e) IN IF Len(b) > cap THEN Tail(b) ELSE b

SeqMax(seq, default) ==
    IF seq = <<>> THEN default
    ELSE CHOOSE m \in {seq[i] : i \in 1 .. Len(seq)} :
            \A i \in 1 .. Len(seq) : seq[i] <= m

\* A variant that never advances the write position.
PrioNextPosStuck(p, cap) == p

\* PrioritizedReplayBuffer.push: self.pos = (self.pos + 1) % self.capacity
PrioNextPos(p, cap) == (p + 1) % cap

\* SimpleReplayBuffer.push of a new experience.
SimpleBufPush ==
    /\ Len(spushed) < MaxPushes
    /\ LET e == Len(spushed) + 1
       IN  /\ sbuf' = SimplePush(sbuf, capacity, e)
           /\ spushed' = Append(spushed, e)
    /\ UNCHANGED <<capacity, pbuf, priorities, pos, ppushed>>
    /\ UNCHANGED <<ctl_vars, stats_vars, agent_vars, env_vars, sched_vars,
                   train_vars>>

\* PrioritizedReplayBuffer.push of a new experience.
PrioBufPush ==
    /\ Len(ppushed) < MaxPushes
    /\ LET e == Len(ppushed) + 1
           max_priority == SeqMax(priorities, PriorityOne)
       IN  /\ IF Len(pbuf) < capacity
              THEN /\ pbuf' = Append(pbuf, e)
                   /\ priorities' = Append(priorities, max_priority)
              ELSE /\ pbuf' = [pbuf EXCEPT ![pos + 1] = e]
                   /\ priorities' = [priorities EXCEPT ![pos + 1] = max_priority]
           /\ pos' = PrioNextPos(pos, capacity)
           /\ ppushed' = Append(ppushed, e)
    /\ UNCHANGED <<capacity, sbuf, spushed>>
    /\ UNCHANGED <<ctl_vars, stats_vars, agent_vars, env_vars, sched_vars,
                   train_vars>>

PriorityFloor == 1        \* 1e-5, added to every updated priority

\* The magnitudes of the TD errors update_priorities may be given.
Losses == {0, 200000}

\* A variant that stores the magnitude as it is.
NewPriorityNoFloor(priority) == priority

\* update_priorities: self.priorities[idx] = priority + 1e-5
NewPriority(priority) == priority + PriorityFloor

\* PrioritizedReplayBuffer.update_priorities(indices, priorities): indices are
\* distinct positions of the buffer, as sample returns them.
PrioBufUpdatePriorities ==
    /\ \E indices \in (SUBSET (1 .. Len(pbuf))) \ {{}} :
       \E new \in [indices -> Losses] :
         priorities' = [i \in 1 .. Len(priorities) |->
                          IF i \in indices THEN NewPriority(new[i])
                                           ELSE priorities[i]]
    /\ UNCHANGED <<capacity, sbuf, pbuf, pos, spushed, ppushed>>
    /\ UNCHANGED <<ctl_vars, stats_vars, agent_vars, env_vars, sched_vars,
                   train_vars>>

(***************************************************************************)
(* DDQNAgent.  A network's parameters are one of a few settings, and its   *)
(* BatchNorm1d layers count the batches they have seen in train mode;      *)
(* Forward is what a network computes for an observed state in eval mode.  *)
(* Rewards are integers, gamma is in hundredths, and targets are in        *)
(* hundredths of a reward unit, so the arithmetic of the target is exact.  *)
(***************************************************************************)
BatchSize == 2            \* self.batch_size
MemorySize == 2           \* memory_size, the capacity of self.memory
MaxRefused == 1           \* batches of one sample followed on one network

Weights == {1, 2, 3}
NetStates == {0, 1}
Gammas == {50, 99}

QVectorOf == <<(<<1, 1, 0>>), (<<0, 2, 2>>), (<<0, 1, 3>>)>>

\* The state_dict of a DQNNetwork.  params is the setting of the parameters
\* (the weights and biases of the Linear and BatchNorm1d layers).  batches
\* is the number of batches the BatchNorm1d layers have normalised in train
\* mode: running_mean and running_var hold the statistics of these batches
\* and num_batches_tracked counts them.  refused is the number of batches of
\* one sample the first BatchNorm1d has counted in its num_batches_tracked
\* before it refused them.
StateDict(w, batches) == [params |-> w, batches |-> batches, refused |-> 0]

\* DQNNetwork.forward on a batch of two or more samples, as it leaves the
\* network: in train mode every BatchNorm1d updates its running statistics
\* and its count, in eval mode nothing changes.
TrainForward(net, training) ==
    IF training THEN [net EXCEPT !.batches = @ + 1] ELSE net

\* DQNNetwork.forward in train mode on a batch of one sample: the first
\* BatchNorm1d adds one to num_batches_tracked and then raises ValueError.
RefusedForward(net) == [net EXCEPT !.refused = @ + 1]

\* self.optimizer.step(): the parameters go to the setting w.
OptimizerStep(net, w) == [net EXCEPT !.params = w]

\* DQNNetwork.forward in eval mode: the output depends on the parameters and
\* on the running statistics of the BatchNorm1d layers.
Forward(net, state) ==
    QVectorOf[((net.params + net.batches + state - 1) % 3) + 1]

\* The experiences the environment may hand to store_experience.
Experiences ==
    {[state |-> 0, action |-> 0, reward |-> 2, next_state |-> 1, done |-> 1],
     [state |-> 1, action |-> 2, reward |-> 0 - 1, next_state |-> 0, done |-> 0]}

NoRet ==
    [op |-> "none", raised |-> FALSE, value |-> "None", state |-> 0,
     epsilon |-> 0, action |-> NoAction, branch |-> "none", batch |-> <<>>,
     policy_out |-> <<>>, next_actions |-> <<>>, targets |-> <<>>,
     path |-> "none"]

\* A variant of the test that lets a buffer one short of the batch through.
NotEnoughSamplesOffByOne(n, batch_size) == n < batch_size - 1

\* train_step: len(self.memory) < self.batch_size
NotEnoughSamples(n, batch_size) == n < batch_size

\* A variant that forgets the terminal flag.
TargetQNoTerminal(reward, done, g, next_q) == reward * 100 + g * next_q

\* train_step: rewards + (1 - dones) * self.gamma * next_q_values, in
\* hundredths.
TargetQ(reward, done, g, next_q) == reward * 100 + (1 - done) * g * next_q

\* A variant that lets the target network choose the next action.
NextActionByTarget(policy_q, target_q) == Argmax(target_q)

\* train_step: next_actions = self.policy_net(next_states).argmax(1)
NextAction(policy_q, target_q) == Argmax(policy_q)

\* The samples random.sample may draw: n distinct positions of the memory.
\* The batch is processed row by row and the loss is a mean over the rows,
\* so the positions are listed in increasing order.
Samples(len, n) ==
    {idx \in [1 .. n -> 1 .. len] :
        \A i, j \in 1 .. n : i < j => idx[i] < idx[j]}

\* select_action(state, epsilon) on the agent.
SelectActionCall ==
    /\ \E s \in NetStates, eps \in Epsilons :
        \E res \in {SelectAction(Forward(policy_net, s), policy_training,
                                 eps, r, k) :
                        r \in RandomDraws, k \in RandIntRange(ActionDim)} :
            /\ res.raised => policy_net.refused < MaxRefused
            /\ ret' = [NoRet EXCEPT !.op = "select_action", !.raised = res.raised,
                                 !.value = IF res.raised THEN "raise" ELSE "action",
                                 !.state = s, !.epsilon = eps,
                                 !.action = res.action, !.branch = res.branch]
            /\ policy_net' = IF res.raised THEN RefusedForward(policy_net)
                             ELSE policy_net
    /\ UNCHANGED <<policy_training, target_net, optimizer_steps,
                   training_steps, memory, gamma, last_sync>>
    /\ UNCHANGED <<ctl_vars, stats_vars, buf_vars, env_vars, sched_vars,
                   train_vars>>

\* store_experience: self.memory.push(...)
StoreExperience ==
    /\ \E e \in Experiences : memory' = SimplePush(memory, MemorySize, e)
    /\ ret' = [NoRet EXCEPT !.op = "store_experience"]
    /\ UNCHANGED <<policy_net, policy_training, target_net, optimizer_steps,
                   training_steps, gamma, last_sync>>
    /\ UNCHANGED <<ctl_vars, stats_vars, buf_vars, env_vars, sched_vars,
                   train_vars>>

\* train_step.  idx is the sample drawn from the memory, noise the parameter
\* setting the policy network's forward pass behaves as while it is in train
\* mode (Dropout, batch statistics), w the setting the optimizer step leaves
\* the policy network with.  The two forward passes of the policy network
\* (on states and on next_states) update the running statistics of its
\* BatchNorm1d layers when it is in train mode.  In train mode a batch of
\* one sample is refused by BatchNorm1d.
TrainStep ==
    IF NotEnoughSamples(Len(memory), BatchSize)
    THEN /\ ret' = [NoRet EXCEPT !.op = "train_step"]
         /\ UNCHANGED <<policy_net, policy_training, target_net, optimizer_steps,
                        training_steps, memory, gamma,
                        last_sync>>
         /\ UNCHANGED <<ctl_vars, stats_vars, buf_vars, env_vars, sched_vars,
                   train_vars>>
    ELSE LET n == Min(BatchSize, Len(memory)) IN
         IF policy_training /\ n = 1
         THEN /\ ret' = [NoRet EXCEPT !.op = "train_step", !.raised = TRUE,
                                       !.value = "raise"]
              /\ policy_net' = RefusedForward(policy_net)
              /\ UNCHANGED <<policy_training, target_net,
                             optimizer_steps, training_steps, memory, gamma,
                             last_sync>>
              /\ UNCHANGED <<ctl_vars, stats_vars, buf_vars, env_vars, sched_vars,
                   train_vars>>
         ELSE /\ training_steps < MaxSteps
              /\ \E idx \in Samples(Len(memory), n), noise \in Weights, w \in Weights :
                  LET batch == [i \in 1 .. n |-> memory[idx[i]]]
                      policy_out == [i \in 1 .. n |->
                          Forward(IF policy_training THEN StateDict(noise, 0)
                                  ELSE policy_net,
                                  batch[i].next_state)]
                      target_out == [i \in 1 .. n |->
                          Forward(target_net, batch[i].next_state)]
                      next_actions == [i \in 1 .. n |->
                          NextAction(policy_out[i], target_out[i])]
                      targets == [i \in 1 .. n |->
                          TargetQ(batch[i].reward, batch[i].done, gamma,
                                  target_out[i][next_actions[i] + 1])]
                  IN  /\ (~policy_training => noise = policy_net.params)
                      /\ policy_net' =
                            OptimizerStep(
                                TrainForward(TrainForward(policy_net,
                                                          policy_training),
                                             policy_training), w)
                      /\ ret' = [NoRet EXCEPT !.op = "train_step", !.value = "loss",
                                               !.batch = batch,
                                               !.policy_out = policy_out,
                                               !.next_actions = next_actions,
                                               !.targets = targets]
              /\ optimizer_steps' = optimizer_steps + 1
              /\ training_steps' = training_steps + 1
              /\ UNCHANGED <<policy_training, target_net, memory, gamma,
                             last_sync>>
              /\ UNCHANGED <<ctl_vars, stats_vars, buf_vars, env_vars, sched_vars,
                   train_vars>>

\* A variant that leaves the target network as it is.
SyncTargetKeep(policy, target) == target

\* self.target_net.load_state_dict(self.policy_net.state_dict())
SyncTarget(policy, target) == policy

\* update_target_network: target_net.load_state_dict(policy_net.state_dict())
UpdateTargetNetwork ==
    /\ target_net' = SyncTarget(policy_net, target_net)
    /\ ret' = [NoRet EXCEPT !.op = "update_target_network"]
    /\ last_sync' = [kind |-> "update_target_network", policy |-> policy_net,
                     target |-> target_net']
    /\ UNCHANGED <<policy_net, policy_training, optimizer_steps, training_steps,
                   memory, gamma>>
    /\ UNCHANGED <<ctl_vars, stats_vars, buf_vars, env_vars, sched_vars,
                   train_vars>>

\* The training section of the configuration DDQNAgent.__init__ reads (the
\* file at config_path, or the default dictionary): epsilon in hundredths.
\* The values are those of a configuration file with a decay of one half
\* and a floor of one fifth: epsilon is 1.0, 0.5, 0.25 and then the floor,
\* which fixed-point arithmetic follows exactly.
train_config ==
    [batch_size |-> 3, epsilon_start |-> 100, epsilon_end |-> 20,
     epsilon_decay |-> 50, memory_size |-> 3, target_update_freq |-> 2]

\* A variant that does not hold epsilon at the floor.
DecayEpsilonNoFloor(eps) == (eps * train_config.epsilon_decay) \div 100

\* decay_epsilon: max(self.epsilon_end, self.epsilon * self.epsilon_decay)
DecayEpsilon(eps) ==
    Max(train_config.epsilon_end, (eps * train_config.epsilon_decay) \div 100)

\* A variant that leaves the step counter out of the bundle.
SaveBundleNoSteps(policy, target, optimizer, eps, st, tsteps) ==
    [policy_net |-> policy, target_net |-> target, optimizer |-> optimizer,
     epsilon |-> eps, steps |-> 0, training_steps |-> tsteps]

\* The dictionary save_model hands to torch.save.
SaveBundle(policy, target, optimizer, eps, st, tsteps) ==
    [policy_net |-> policy, target_net |-> target, optimizer |-> optimizer,
     epsilon |-> eps, steps |-> st, training_steps |-> tsteps]

\* The paths of the model files.
BestPath == "data/models/ddqn_best.pth"
Paths == {BestPath, "data/models/ddqn_ep100.pth"}

NoFiles == <<>>

\* What torch.save leaves at a path: the bundle; fields is what the agent
\* held when save_model was called, episode the trainer's episode then.
CompleteFile(bundle, fields, episode) ==
    [complete |-> TRUE, bundle |-> bundle, fields |-> fields,
     episode |-> episode]

\* What an interrupted torch.save leaves at a path: the file is created and
\* truncated, the bundle is not fully written.
PartialFile(fields, episode) ==
    [complete |-> FALSE, bundle |-> <<>>, fields |-> fields,
     episode |-> episode]

WriteFile(d, path, file) ==
    [q \in (DOMAIN d) \cup {path} |-> IF q = path THEN file ELSE d[q]]

\* The six items save_model reads from the agent.
AgentFields ==
    [policy_net |-> policy_net, target_net |-> target_net,
     optimizer |-> optimizer_steps, epsilon |-> epsilon, steps |-> steps,
     training_steps |-> training_steps]

\* save_model(path) on the agent, called in episode ep of a training (0:
\* outside a training).
SaveModelTo(d, path, ep) ==
    WriteFile(d, path,
              CompleteFile(SaveBundle(policy_net, target_net, optimizer_steps,
                                      epsilon, steps, training_steps),
                           AgentFields, ep))

SaveModel ==
    /\ \E path \in Paths : disk' = SaveModelTo(disk, path, 0)
    /\ ret' = [NoRet EXCEPT !.op = "save_model"]
    /\ UNCHANGED <<policy_net, policy_training, target_net, optimizer_steps,
                   training_steps, memory, gamma, last_sync, epsilon, steps,
                   trainer>>
    /\ UNCHANGED <<ctl_vars, stats_vars, buf_vars, env_vars>>

\* load_model once the file is read: both networks, the optimizer state,
\* epsilon and the counters come from the bundle, and both networks go to
\* eval mode.
LoadBundle(b, path) ==
    /\ policy_net' = b.policy_net
    /\ target_net' = b.target_net
    /\ optimizer_steps' = b.optimizer
    /\ epsilon' = b.epsilon
    /\ steps' = b.steps
    /\ training_steps' = b.training_steps
    /\ policy_training' = FALSE
    /\ ret' = [NoRet EXCEPT !.op = "load_model", !.value = "True",
                            !.path = path]
    /\ last_sync' = [kind |-> "load_model", policy |-> b.policy_net,
                     target |-> b.target_net]

\* The bundles an earlier training of MaxSteps steps may have left, saved
\* before its first train_step update or after MaxSteps of them: it ended
\* with epsilon at its floor, each of its n train_step updates fed the
\* policy network two batches, and the target network is the policy
\* network of the last sync.
StoredBundles ==
    {SaveBundle(StateDict(wp, 2 * n),
                IF wt = wp THEN StateDict(wp, 2 * n)
                ELSE StateDict(wt, 2 * Max(0, n - 1)),
                n, train_config.epsilon_end, MaxSteps, n) :
        wp \in Weights, wt \in Weights, n \in {0, MaxSteps}}

\* load_model of an existing checkpoint of an earlier training.
LoadModel ==
    /\ \E b \in StoredBundles : LoadBundle(b, "none")
    /\ UNCHANGED <<memory, gamma>>
    /\ UNCHANGED <<ctl_vars, stats_vars, buf_vars, env_vars, train_vars>>

\* load_model(path) of a file on disk: False and no change when there is no
\* file; torch.load raises on a file that was not fully written.
LoadModelFile ==
    /\ \E path \in Paths :
        IF path \notin DOMAIN disk
        THEN /\ ret' = [NoRet EXCEPT !.op = "load_model", !.value = "False",
                                     !.path = path]
             /\ UNCHANGED <<policy_net, policy_training, target_net,
                            optimizer_steps, training_steps, last_sync,
                            epsilon, steps>>
        ELSE IF ~disk[path].complete
        THEN /\ ret' = [NoRet EXCEPT !.op = "load_model", !.raised = TRUE,
                                     !.value = "raise", !.path = path]
             /\ UNCHANGED <<policy_net, policy_training, target_net,
                            optimizer_steps, training_steps, last_sync,
                            epsilon, steps>>
        ELSE LoadBundle(disk[path].bundle, path)
    /\ UNCHANGED <<memory, gamma, train_vars>>
    /\ UNCHANGED <<ctl_vars, stats_vars, buf_vars, env_vars>>

\* DDQNAgent(...): another agent of the same architecture is constructed
\* and takes the place of the agent.
NewAgent ==
    /\ policy_net' \in {StateDict(w, 0) : w \in Weights}
    /\ target_net' = SyncTarget(policy_net', policy_net')
    /\ policy_training' = TRUE
    /\ optimizer_steps' = 0
    /\ training_steps' = 0
    /\ memory' = <<>>
    /\ epsilon' = train_config.epsilon_start
    /\ steps' = 0
    /\ ret' = [NoRet EXCEPT !.op = "__init__"]
    /\ last_sync' = [kind |-> "__init__", policy |-> policy_net',
                     target |-> target_net']
    /\ UNCHANGED <<gamma, train_vars>>
    /\ UNCHANGED <<ctl_vars, stats_vars, buf_vars, env_vars>>


(***************************************************************************)
(* RLQoSController._port_stats_reply_handler.  Time is in seconds, byte    *)
(* counters are in bytes, bandwidth is in thousandths of a Mbps (1.0 Mbps  *)
(* is 1000), which is exact for the counters and times drawn here.         *)
(***************************************************************************)
LocalPort == MaxPortNo + 1        \* a port the handler skips
StatPorts == {1, LocalPort}
Times == {0, 1, 2}

ZeroSample ==
    [rx_bytes |-> 0, tx_bytes |-> 0, rx_packets |-> 0, tx_packets |-> 0,
     rx_dropped |-> 0, tx_dropped |-> 0]

\* The counters a reply may carry for a port.
StatSamples ==
    {ZeroSample,
     [rx_bytes |-> 125000, tx_bytes |-> 0, rx_packets |-> 100, tx_packets |-> 0,
      rx_dropped |-> 0, tx_dropped |-> 0],
     [rx_bytes |-> 250000, tx_bytes |-> 125000, rx_packets |-> 200,
      tx_packets |-> 100, rx_dropped |-> 10, tx_dropped |-> 0]}

\* An entry of self.port_stats: the counters and the time they were stored.
StatEntry(sample, timestamp) ==
    [rx_bytes |-> sample.rx_bytes, tx_bytes |-> sample.tx_bytes,
     rx_packets |-> sample.rx_packets, tx_packets |-> sample.tx_packets,
     rx_dropped |-> sample.rx_dropped, tx_dropped |-> sample.tx_dropped,
     timestamp |-> timestamp]

\* (bytes * 8) / (time_diff * 1e6), in thousandths of a Mbps.
Bandwidth(delta_bytes, time_diff) ==
    (delta_bytes * 8 * 1000) \div (time_diff * 1000000)

\* A variant that stores the computed value as it is.
ClampBwNone(bw) == bw

\* max(0, rx_bw), max(0, tx_bw)
ClampBw(bw) == Max(0, bw)

NoReply ==
    [ran |-> FALSE, ports |-> {}, now |-> 0, elapsed |-> <<>>, before |-> <<>>]

\* The handler on one reply.  body gives the counters of the ports of the
\* reply, now is the reading of time.time(); for a port with no entry yet,
\* the defaultdict makes one with zero counters and the time of its making,
\* first[p] seconds before now.
PortStatsReply ==
    /\ ~left
    /\ \E ps \in (SUBSET StatPorts) \ {{}}, now \in Times :
       \E body \in [ps -> StatSamples], first \in [ps -> {0, 1}] :
        /\ \A p \in ps : p > MaxPortNo => body[p] = ZeroSample
        /\ \A p \in ps : (p \in DOMAIN port_stats \/ p > MaxPortNo) => first[p] = 0
        /\ LET processed == {p \in ps : ~(p > MaxPortNo)}
               prev(p) == IF p \in DOMAIN port_stats
                          THEN port_stats[p]
                          ELSE StatEntry(ZeroSample, now - first[p])
               time_diff(p) == now - prev(p).timestamp
               updated == {p \in processed : time_diff(p) > 0}
           IN  /\ current_bandwidth' =
                    [p \in (DOMAIN current_bandwidth) \cup updated |->
                        IF p \in updated
                        THEN [rx |-> ClampBw(Bandwidth(
                                        body[p].rx_bytes - prev(p).rx_bytes,
                                        time_diff(p))),
                              tx |-> ClampBw(Bandwidth(
                                        body[p].tx_bytes - prev(p).tx_bytes,
                                        time_diff(p)))]
                        ELSE current_bandwidth[p]]
               /\ port_stats' =
                    [p \in (DOMAIN port_stats) \cup processed |->
                        IF p \in processed THEN StatEntry(body[p], now)
                                           ELSE port_stats[p]]
               /\ reply' = [ran |-> TRUE, ports |-> ps, now |-> now,
                            elapsed |-> [p \in processed |-> time_diff(p)],
                            before |-> [p \in processed |->
                                [dropped |-> prev(p).rx_dropped + prev(p).tx_dropped,
                                 packets |-> prev(p).rx_packets + prev(p).tx_packets]]]
    /\ UNCHANGED <<left, net_state, handler>>
    /\ UNCHANGED <<ctl_vars, buf_vars, agent_vars, env_vars, sched_vars,
                   train_vars>>

(***************************************************************************)
(* The handler statement by statement, for its interleaving with the       *)
(* decision loop: the start of a reply, then for each port of the body the *)
(* bandwidth (lines 268-279) and the counters (lines 282-290).             *)
(***************************************************************************)
\* What the tables hold for a port: its bandwidth and its counters.
NoEntry == [missing |-> TRUE]

PortPair(stats, bw, p) ==
    [bw |-> IF p \in DOMAIN bw THEN bw[p] ELSE NoEntry,
     stat |-> IF p \in DOMAIN stats THEN stats[p] ELSE NoEntry]

\* The ports of a body the loop does not skip, in the order of the body.
RECURSIVE PortsInOrder(_)
PortsInOrder(ps) ==
    IF ps = {} THEN <<>>
    ELSE LET p == CHOOSE q \in ps : \A o \in ps : q <= o
         IN  <<p>> \o PortsInOrder(ps \ {p})

\* prev_stat = self.port_stats[dpid][port_no]: the entry, or the one the
\* defaultdict makes.
PrevStat(stats, p, now, first) ==
    IF p \in DOMAIN stats THEN stats[p] ELSE StatEntry(ZeroSample, now - first)

\* The bandwidth entry of a port after the handler's pass for it.
BandwidthAfter(stats, bw, p, sample, now, first) ==
    LET prev == PrevStat(stats, p, now, first)
        time_diff == now - prev.timestamp
    IN  IF time_diff > 0
        THEN [rx |-> ClampBw(Bandwidth(sample.rx_bytes - prev.rx_bytes, time_diff)),
              tx |-> ClampBw(Bandwidth(sample.tx_bytes - prev.tx_bytes, time_diff))]
        ELSE IF p \in DOMAIN bw THEN bw[p] ELSE NoEntry

HandlerBegin ==
    /\ handler.pc = "idle"
    /\ handler.count < MaxReplies
    /\ ~left
    /\ \E ps \in (SUBSET StatPorts) \ {{}}, now \in Times :
       \E body \in [ps -> StatSamples], first \in [ps -> {0, 1}] :
        /\ \A p \in ps : p > MaxPortNo => body[p] = ZeroSample
        /\ \A p \in ps : (p \in DOMAIN port_stats \/ p > MaxPortNo) => first[p] = 0
        /\ LET processed == {p \in ps : ~(p > MaxPortNo)}
           IN  handler' =
                 [pc |-> IF processed = {} THEN "idle" ELSE "bandwidth",
                  body |-> body, now |-> now, first |-> first,
                  todo |-> PortsInOrder(processed),
                  pre |-> [p \in processed |->
                             PortPair(port_stats, current_bandwidth, p)],
                  post |-> [p \in processed |->
                             [bw |-> BandwidthAfter(port_stats, current_bandwidth,
                                                    p, body[p], now, first[p]),
                              stat |-> StatEntry(body[p], now)]],
                  count |-> handler.count + 1]
    /\ UNCHANGED <<port_stats, current_bandwidth, reply, left, net_state>>
    /\ UNCHANGED <<ctl_vars, buf_vars, agent_vars, env_vars, sched_vars,
                   train_vars>>

\* Lines 268-279 for the next port: prev_stat (the defaultdict makes a
\* missing entry), time_diff, and the bandwidth if time has passed.
HandlerBandwidth ==
    /\ handler.pc = "bandwidth"
    /\ LET p == Head(handler.todo)
           prev == PrevStat(port_stats, p, handler.now, handler.first[p])
           after == BandwidthAfter(port_stats, current_bandwidth, p,
                                   handler.body[p], handler.now, handler.first[p])
       IN  /\ port_stats' = [q \in (DOMAIN port_stats) \cup {p} |->
                                IF q = p THEN prev ELSE port_stats[q]]
           /\ current_bandwidth' =
                 IF after = NoEntry THEN current_bandwidth
                 ELSE [q \in (DOMAIN current_bandwidth) \cup {p} |->
                         IF q = p THEN after ELSE current_bandwidth[q]]
    /\ handler' = [handler EXCEPT !.pc = "stats"]
    /\ UNCHANGED <<reply, left, net_state>>
    /\ UNCHANGED <<ctl_vars, buf_vars, agent_vars, env_vars, sched_vars,
                   train_vars>>

\* Lines 282-290 for the same port: its counters and the time.
HandlerStats ==
    /\ handler.pc = "stats"
    /\ LET p == Head(handler.todo)
       IN  /\ port_stats' = [port_stats EXCEPT
                                ![p] = StatEntry(handler.body[p], handler.now)]
           /\ handler' = [handler EXCEPT
                  !.todo = Tail(@),
                  !.pc = IF Tail(handler.todo) = <<>> THEN "idle"
                         ELSE "bandwidth"]
    /\ UNCHANGED <<current_bandwidth, reply, left, net_state>>
    /\ UNCHANGED <<ctl_vars, buf_vars, agent_vars, env_vars, sched_vars,
                   train_vars>>

\* The device disconnects: no reply arrives from then on.  The controller
\* has no handler for it; self.datapaths, self.port_stats and
\* self.current_bandwidth stay as they are.
DeviceLeaves ==
    /\ ~left
    /\ left' = TRUE
    /\ UNCHANGED <<port_stats, current_bandwidth, reply, net_state, handler>>
    /\ UNCHANGED <<ctl_vars, buf_vars, agent_vars, env_vars, sched_vars,
                   train_vars>>

(***************************************************************************)
(* RLQoSController._get_network_state.  The components of the state vector *)
(* are in units of 1e-4 (1.0 is 10000).                                    *)
(***************************************************************************)
StateOne == 10000         \* 1.0, the cap of the components
TotalBwMbps == 100        \* total_bw
LatencyMs == 10           \* work_latency, entertainment_latency
MissingPackets == 1       \* stat.get('rx_packets', 1), stat.get('tx_packets', 1)
LastHour == 23            \* datetime.now().hour / 23.0

\* The readings of datetime.now().hour.
Hours == {0, 12, LastHour}

RECURSIVE SumOver(_, _)
SumOver(S, f) ==
    IF S = {} THEN 0
    ELSE LET x == CHOOSE y \in S : TRUE IN f[x] + SumOver(S \ {x}, f)

\* Bandwidth of a class: rx + tx of its ports that have an entry in
\* self.current_bandwidth, in thousandths of a Mbps.
ClassBw(bw, class) ==
    LET ps == device_ports[class] \cap DOMAIN bw
    IN  SumOver(ps, [p \in ps |-> bw[p].rx + bw[p].tx])

\* dropped / max(packets, 1) of one port, from the stored counters; a port
\* with no entry counts 0 dropped and 1 + 1 packets.
PortLoss(stats, p) ==
    LET dropped == IF p \in DOMAIN stats
                   THEN stats[p].rx_dropped + stats[p].tx_dropped ELSE 0
        packets == IF p \in DOMAIN stats
                   THEN stats[p].rx_packets + stats[p].tx_packets
                   ELSE MissingPackets + MissingPackets
    IN  (dropped * StateOne) \div Max(packets, 1)

ClassLoss(stats, class) ==
    SumOver(device_ports[class], [p \in device_ports[class] |-> PortLoss(stats, p)])

\* A variant that does not cap the component.
CapNone(x) == x

\* min(x, 1.0)
Cap(x) == Min(x, StateOne)

\* The state vector of _get_network_state.
GetNetworkState(stats, bw, hour) ==
    <<Cap(ClassBw(bw, "work") \div ((1000 * 100) \div StateOne)),
      Cap(ClassBw(bw, "entertainment") \div ((1000 * 100) \div StateOne)),
      Cap((LatencyMs * StateOne) \div 100),
      Cap((LatencyMs * StateOne) \div 100),
      Cap(ClassLoss(stats, "work")),
      Cap(ClassLoss(stats, "entertainment")),
      (TotalBwMbps * StateOne) \div 100,
      (hour * StateOne) \div LastHour>>

NoNetState ==
    [ran |-> FALSE, hour |-> 0, state |-> <<>>, work_bw |-> 0,
     entertainment_bw |-> 0, after_left |-> FALSE]

\* A variant for threads that are preempted anywhere.
MaySwitchAnywhere(pc) == TRUE

\* The hub runs green threads: another thread runs only when the running
\* one blocks (hub.sleep, a send or receive).  The handler has no such call
\* between its first and its last statement.
MaySwitch(pc) == pc = "idle"

\* pre and post are what the last reply found and what it leaves for each
\* of its ports, count the replies so far.
NoHandler ==
    [pc |-> "idle", body |-> <<>>, now |-> 0, first |-> <<>>, todo |-> <<>>,
     pre |-> <<>>, post |-> <<>>, count |-> 0]

\* A call of _get_network_state, as the decision cycle makes it: the
\* decision loop runs when the hub switches to it.
GetNetworkStateCall ==
    /\ MaySwitch(handler.pc)
    /\ \E hour \in Hours :
        net_state' = [ran |-> TRUE, hour |-> hour,
                      state |-> GetNetworkState(port_stats, current_bandwidth, hour),
                      work_bw |-> ClassBw(current_bandwidth, "work"),
                      entertainment_bw |-> ClassBw(current_bandwidth, "entertainment"),
                      after_left |-> left]
    /\ UNCHANGED <<port_stats, current_bandwidth, reply, left, handler>>
    /\ UNCHANGED <<ctl_vars, buf_vars, agent_vars, env_vars, sched_vars,
                   train_vars>>

(***************************************************************************)
(* NetworkEnvironment.  Demands, allocations and bandwidths are in Mbps,   *)
(* the multipliers of the traffic patterns in tenths, the congestion       *)
(* factor in hundredths, the components of the state vector in units of    *)
(* 1e-4 as above.                                                          *)
(***************************************************************************)
EnvMaxSteps == 2          \* self.max_steps, the length of an episode

EnvTotalBandwidth == 100  \* self.total_bandwidth
EnvBaseLatency == 10      \* self.base_latency
EnvStartAllocated == 50   \* work_allocated, entertain_allocated after reset
EnvMinDemand == 10        \* np.clip(self.work_demand, 10, 90)
EnvMaxDemand == 90        \* np.clip(self.work_demand, 10, 90)
CongestionLossFrom == 120 \* congestion_factor > 1.2

Clip(x, lo, hi) == Max(lo, Min(hi, x))

\* The hours reset may draw, the demands self.work_demand and
\* self.entertain_demand may take, and the draws of np.random.randn() * 5 in
\* _get_state and of np.random.randn() * 3 in step.
ResetHours == {5, 8, 11, 16, 22}
Demands == {EnvMinDemand, 50, EnvMaxDemand}
ObsNoise == {0 - 5, 5}
DemandNoise == {0 - 40, 40}

\* _get_time_multipliers
TimeMultipliers(hour) ==
    CASE 6 <= hour /\ hour < 9   -> [work |-> 12, entertainment |-> 6]
      [] (9 <= hour /\ hour < 12) \/ (13 <= hour /\ hour < 17)
                                 -> [work |-> 18, entertainment |-> 4]
      [] 12 <= hour /\ hour < 13 -> [work |-> 8, entertainment |-> 12]
      [] 17 <= hour /\ hour < 23 -> [work |-> 5, entertainment |-> 20]
      [] OTHER                   -> [work |-> 3, entertainment |-> 7]

\* step: the allocation an action sets.
Allocation(action) ==
    CASE action = 0 -> [work |-> 70, entertainment |-> 30]
      [] action = 1 -> [work |-> 50, entertainment |-> 50]
      [] OTHER      -> [work |-> 30, entertainment |-> 70]

\* A variant that measures the room left instead of the shortfall.
EnvLossRoom(demand, allocated) ==
    Max(0, ((allocated - demand) * StateOne) \div 100)

\* max(0, (demand - allocated) / 100.0)
EnvLoss(demand, allocated) ==
    Max(0, ((demand - allocated) * StateOne) \div 100)

\* latency / 100.0: base_latency * congestion_factor, times
\* demand / allocated when the demand is above the allocation.
EnvLatency(cf, demand, allocated) ==
    LET base == (EnvBaseLatency * cf * StateOne) \div (100 * 100)
    IN  IF demand > allocated THEN (base * demand) \div allocated ELSE base

\* _get_state, with the two draws of its noise.
EnvGetState(hour, demand_w, demand_e, alloc_w, alloc_e, nw, ne) ==
    LET m == TimeMultipliers(hour)
        wd == Clip((demand_w * m.work) \div 10 + nw, 0, 100)
        ed == Clip((demand_e * m.entertainment) \div 10 + ne, 0, 100)
        total_demand == wd + ed
        cf == Max(100, (total_demand * 100) \div EnvTotalBandwidth)
        congestion_loss == IF cf > CongestionLossFrom
                           THEN ((cf - CongestionLossFrom) * 5 * StateOne)
                                    \div (100 * 100)
                           ELSE 0
    IN  [work_demand |-> wd, entertain_demand |-> ed,
         state |->
           <<(Min(alloc_w, wd) * StateOne) \div 100,
             (Min(alloc_e, ed) * StateOne) \div 100,
             Clip(EnvLatency(cf, wd, alloc_w), 0, StateOne),
             Clip(EnvLatency(cf, ed, alloc_e), 0, StateOne),
             Clip(EnvLoss(wd, alloc_w) + congestion_loss, 0, StateOne),
             Clip(EnvLoss(ed, alloc_e) + congestion_loss, 0, StateOne),
             (EnvTotalBandwidth * StateOne) \div 100,
             (hour * StateOne) \div LastHour>>]

NoEnv ==
    [made |-> FALSE, hour |-> 0, work_demand |-> 0, entertain_demand |-> 0,
     work_allocated |-> 0, entertain_allocated |-> 0, step_count |-> 0,
     op |-> "none", obs_work_demand |-> 0, obs_entertain_demand |-> 0,
     state |-> <<>>, done |-> FALSE]

\* reset(), also the last step of __init__: the counters, the hour, the
\* demands and the allocation start again and the state is returned.
EnvResetTo(hour, wd, ed, nw, ne) ==
    LET got == EnvGetState(hour, wd, ed, EnvStartAllocated, EnvStartAllocated,
                           nw, ne)
    IN  [made |-> TRUE, hour |-> hour, work_demand |-> wd,
         entertain_demand |-> ed, work_allocated |-> EnvStartAllocated,
         entertain_allocated |-> EnvStartAllocated, step_count |-> 0,
         op |-> "reset", obs_work_demand |-> got.work_demand,
         obs_entertain_demand |-> got.entertain_demand, state |-> got.state,
         done |-> FALSE]

EnvReset ==
    /\ env.made
    /\ \E hour \in ResetHours, wd \in Demands, ed \in Demands,
          nw \in ObsNoise, ne \in ObsNoise :
        env' = EnvResetTo(hour, wd, ed, nw, ne)
    /\ UNCHANGED <<ctl_vars, stats_vars, buf_vars, agent_vars, sched_vars,
                   train_vars>>

\* step(action): the allocation of the action, the state the reward is
\* computed from (it changes nothing of the environment), the step count,
\* the hour and the demands, then the state that is returned.
EnvStepTo(e, action, dw, de, nw, ne) ==
    LET alloc == Allocation(action)
        hour == (e.hour + 1) % 24
        wd == Clip(e.work_demand + dw, EnvMinDemand, EnvMaxDemand)
        ed == Clip(e.entertain_demand + de, EnvMinDemand, EnvMaxDemand)
        got == EnvGetState(hour, wd, ed, alloc.work, alloc.entertainment,
                           nw, ne)
    IN  [made |-> TRUE, hour |-> hour, work_demand |-> wd,
         entertain_demand |-> ed, work_allocated |-> alloc.work,
         entertain_allocated |-> alloc.entertainment,
         step_count |-> e.step_count + 1, op |-> "step",
         obs_work_demand |-> got.work_demand,
         obs_entertain_demand |-> got.entertain_demand,
         state |-> got.state,
         done |-> e.step_count + 1 >= EnvMaxSteps]

EnvStep ==
    /\ env.made
    /\ env.step_count < EnvMaxSteps
    /\ \E action \in Actions, dw \in DemandNoise, de \in DemandNoise,
          nw \in ObsNoise, ne \in ObsNoise :
        env' = EnvStepTo(env, action, dw, de, nw, ne)
    /\ UNCHANGED <<ctl_vars, stats_vars, buf_vars, agent_vars, sched_vars,
                   train_vars>>

(***************************************************************************)
(* RLTrainer: train() and _train_episode().  The trainer owns an agent     *)
(* (the agent variables) and an environment (env).                         *)
(***************************************************************************)
NumEpisodes == 3          \* train(num_episodes)

CheckpointEvery == 100    \* episode % 100 == 0

\* The rewards a step of the environment may return.
StepRewards == {0, 1}

\* os.path.join(save_dir, f'ddqn_ep{episode}.pth')
CheckpointPath(episode) ==
    IF episode = CheckpointEvery THEN "data/models/ddqn_ep100.pth"
    ELSE "data/models/ddqn_epN.pth"

\* The network inputs of the model are 0 and 1: a state vector of the
\* environment is folded to whether entertainment has more bandwidth than
\* work.
EnvNetState(e) == IF e.state[2] > e.state[1] THEN 1 ELSE 0

\* self.best_reward = -float('inf'): no reward is recorded yet.
NoBest == [set |-> FALSE, value |-> 0]

\* A variant that takes an equal reward for a new best.
IsNewBestOrEqual(reward, best) == ~best.set \/ reward >= best.value

\* episode_reward > self.best_reward
IsNewBest(reward, best) == ~best.set \/ reward > best.value

\* The parameter settings the optimizer step of a train_step may leave the
\* policy network with: the step changes the parameters.
TrainedWeights(w) == {(w % 3) + 1}

\* A variant that syncs in every pass.
SyncDueAlways(st, freq) == TRUE

\* self.agent.steps % self.agent.target_update_freq == 0
SyncDue(st, freq) == st % freq = 0

\* A variant in which train_step runs before the experience is stored.
TrainingMemoryBeforeStore(before, after) == before

\* The memory train_step finds: store_experience has run before it.
TrainingMemory(before, after) == after

NoTrainerStep ==
    [ran |-> FALSE, raised |-> FALSE, epsilon |-> 0, branch |-> "none",
     action |-> NoAction, stored |-> <<>>, trained |-> FALSE, batch |-> <<>>,
     synced |-> FALSE, reward |-> 0, done |-> FALSE]

\* Where a KeyboardInterrupt found train(): in which part, after how many
\* of its statements, and whether inside the torch.save of the next one.
NoAt == [pc |-> "none", done |-> 0, torn |-> FALSE]

\* RLTrainer.__init__ (memory_size is the capacity of the memory of the
\* agent it builds) and the argument of train(num_episodes); at, syncs,
\* decays and last are records of what train() did: where an interrupt
\* found it, the counters at each update_target_network, the number of
\* decay_epsilon calls, and the last whole pass of the loop of
\* _train_episode.
NoTrainer ==
    [pc |-> "new", at |-> NoAt, num_episodes |-> NumEpisodes,
     memory_size |-> train_config.memory_size,
     episode |-> 0, step |-> 0, episode_reward |-> 0,
     episode_rewards |-> <<>>, episode_lengths |-> <<>>,
     best_reward |-> NoBest, best_episode |-> 0,
     syncs |-> <<>>, decays |-> 0, last |-> NoTrainerStep]

TrainerInit ==
    /\ disk = NoFiles
    /\ trainer = NoTrainer

\* The statements of reset() and of step(action) that change the
\* environment, in the order of the code.
EnvResetStatements ==
    <<"self.step_count = 0", "self.current_hour = random.randint",
      "self.work_demand = base", "self.entertain_demand = base",
      "self.work_demand = np.clip", "self.entertain_demand = np.clip",
      "self.work_allocated = 50.0", "self.entertain_allocated = 50.0",
      "return self._get_state()">>
EnvStepStatements ==
    <<"self.work_allocated =", "self.entertain_allocated =",
      "self.step_count += 1", "self.current_hour =",
      "self.work_demand +=", "self.entertain_demand +=",
      "self.work_demand = np.clip", "self.entertain_demand = np.clip",
      "return next_state, reward, done">>

\* The statements of the start of a pass of train(), of a pass of the loop
\* of _train_episode and of the rest of a pass of train(), those of the
\* environment and of train_step included, in the order of the code: the
\* statements that change the state of the trainer, of its agent or of its
\* environment (of select_action: the forward pass of its greedy branch and
\* the return; of train_step: the two forward passes of the policy network,
\* the optimizer step and the count; the sampling, the loss and the
\* gradients in between change none of it).  A part that is cut after k
\* statements has executed the first k of them; an uncut part has executed
\* them all.
StartStatements ==
    <<"for episode in pbar">> \o EnvResetStatements
        \o <<"episode_reward = 0.0", "steps = 0">>
PassStatements ==
    <<"self.policy_net(state_tensor)", "select_action">> \o EnvStepStatements
        \o <<"store_experience", "self.policy_net(states)",
             "self.policy_net(next_states)", "self.optimizer.step()",
             "self.training_steps += 1", "update_target_network",
             "episode_reward += reward", "steps += 1",
             "self.agent.steps += 1">>
EndStatements ==
    <<"episode_rewards.append", "episode_lengths.append", "self.best_reward",
      "self.best_episode", "save_model(ddqn_best)", "save_model(ddqn_ep)",
      "decay_epsilon">>
StartLen == Len(StartStatements)
PassLen == Len(PassStatements)
EndLen == Len(EndStatements)

\* The statement named is among the first k of the list.
Ran(statements, k, name) ==
    \E i \in 1 .. Min(k, Len(statements)) : statements[i] = name

\* The statement named is statement k of the list.
IsStatement(statements, k, name) ==
    /\ k \in 1 .. Len(statements)
    /\ statements[k] = name

\* The first n statements of reset(): the fields are written one after the
\* other; hour, wd and ed are the draws (the demands drawn are in the range
\* of np.clip).
EnvResetPart(e, hour, wd, ed, nw, ne, n) ==
    IF n >= Len(EnvResetStatements) THEN EnvResetTo(hour, wd, ed, nw, ne)
    ELSE [e EXCEPT
            !.step_count =
                IF Ran(EnvResetStatements, n, "self.step_count = 0")
                THEN 0 ELSE @,
            !.hour =
                IF Ran(EnvResetStatements, n, "self.current_hour = random.randint")
                THEN hour ELSE @,
            !.work_demand =
                IF Ran(EnvResetStatements, n, "self.work_demand = np.clip")
                THEN Clip(wd, EnvMinDemand, EnvMaxDemand)
                ELSE IF Ran(EnvResetStatements, n, "self.work_demand = base")
                THEN wd ELSE @,
            !.entertain_demand =
                IF Ran(EnvResetStatements, n, "self.entertain_demand = np.clip")
                THEN Clip(ed, EnvMinDemand, EnvMaxDemand)
                ELSE IF Ran(EnvResetStatements, n, "self.entertain_demand = base")
                THEN ed ELSE @,
            !.work_allocated =
                IF Ran(EnvResetStatements, n, "self.work_allocated = 50.0")
                THEN EnvStartAllocated ELSE @,
            !.entertain_allocated =
                IF Ran(EnvResetStatements, n, "self.entertain_allocated = 50.0")
                THEN EnvStartAllocated ELSE @]

\* The first n statements of step(action): the allocation, the step count,
\* the hour, the demands before and after np.clip.
EnvStepPart(e, action, dw, de, nw, ne, n) ==
    IF n >= Len(EnvStepStatements) THEN EnvStepTo(e, action, dw, de, nw, ne)
    ELSE [e EXCEPT
            !.work_allocated =
                IF Ran(EnvStepStatements, n, "self.work_allocated =")
                THEN Allocation(action).work ELSE @,
            !.entertain_allocated =
                IF Ran(EnvStepStatements, n, "self.entertain_allocated =")
                THEN Allocation(action).entertainment ELSE @,
            !.step_count =
                IF Ran(EnvStepStatements, n, "self.step_count += 1")
                THEN @ + 1 ELSE @,
            !.hour =
                IF Ran(EnvStepStatements, n, "self.current_hour =")
                THEN (@ + 1) % 24 ELSE @,
            !.work_demand =
                IF Ran(EnvStepStatements, n, "self.work_demand = np.clip")
                THEN Clip(@ + dw, EnvMinDemand, EnvMaxDemand)
                ELSE IF Ran(EnvStepStatements, n, "self.work_demand +=")
                THEN @ + dw ELSE @,
            !.entertain_demand =
                IF Ran(EnvStepStatements, n, "self.entertain_demand = np.clip")
                THEN Clip(@ + de, EnvMinDemand, EnvMaxDemand)
                ELSE IF Ran(EnvStepStatements, n, "self.entertain_demand +=")
                THEN @ + de ELSE @]

\* The first k statements of the start of train() or of its next pass, and
\* of _train_episode: the loop advances episode, then state =
\* self.env.reset() and the counters of the episode start at zero.
Start(k) ==
    /\ \E hour \in {8}, wd \in {50}, ed \in {50}, nw \in {5}, ne \in {5} :
        env' = EnvResetPart(env, hour, wd, ed, nw, ne, Max(0, k - 1))
    /\ trainer' = [trainer EXCEPT
            !.episode = IF Ran(StartStatements, k, "for episode in pbar")
                        THEN @ + 1 ELSE @,
            !.episode_reward =
                IF Ran(StartStatements, k, "episode_reward = 0.0")
                THEN 0 ELSE @,
            !.step = IF Ran(StartStatements, k, "steps = 0") THEN 0 ELSE @,
            !.pc = IF k < StartLen THEN "interrupted" ELSE "steps",
            !.at = IF k < StartLen
                   THEN [pc |-> trainer.pc, done |-> k, torn |-> FALSE]
                   ELSE @]
    /\ UNCHANGED <<disk, sched_vars>>
    /\ UNCHANGED <<ctl_vars, stats_vars, buf_vars, agent_vars>>

EpisodeStart ==
    /\ trainer.pc \in {"new", "next"}
    /\ Start(StartLen)

\* The first k statements of one pass of the loop of _train_episode:
\* select_action with self.epsilon, env.step, store_experience, train_step
\* if the memory holds a batch (the two forward passes of the policy
\* network, the optimizer step, then the count),
\* update_target_network if self.steps is a multiple of target_update_freq,
\* the reward and the counters; the whole pass ends the loop on done.  rs,
\* ks and rewards are what random.random(), random.randint and the reward
\* of the environment may be.  The forward pass of select_action runs on the
\* greedy branch only; in train mode the first BatchNorm1d counts the batch
\* of one state and then refuses it.  The exception leaves train() and
\* main() reports it; a pass that is cut while the exception unwinds ends
\* as interrupted, with the batch counted.
Pass(k, rs, ks, rewards) ==
    /\ \E r \in rs, a \in ks, reward \in rewards,
          w \in TrainedWeights(policy_net.params),
          dw \in {40}, de \in {0 - 40}, nw \in {5}, ne \in {5} :
        LET sel == SelectAction(Forward(policy_net, EnvNetState(env)),
                                policy_training, epsilon, r, a)
            cut == k < PassLen
        IN  IF k >= 1 /\ sel.raised
            THEN /\ cut => IsStatement(PassStatements, k,
                                       "self.policy_net(state_tensor)")
                 /\ trainer' =
                        IF cut
                        THEN [trainer EXCEPT !.pc = "interrupted",
                                !.at = [pc |-> "steps", done |-> k,
                                        torn |-> FALSE]]
                        ELSE [trainer EXCEPT !.pc = "raised",
                                !.last = [NoTrainerStep EXCEPT !.ran = TRUE,
                                            !.raised = TRUE, !.epsilon = epsilon,
                                            !.branch = sel.branch]]
                 /\ policy_net' = RefusedForward(policy_net)
                 /\ UNCHANGED <<env, target_net, optimizer_steps,
                                training_steps, memory, steps>>
            ELSE LET next_env == EnvStepTo(env, sel.action, dw, de, nw, ne)
                     experience ==
                         [state |-> EnvNetState(env), action |-> sel.action,
                          reward |-> reward,
                          next_state |-> EnvNetState(next_env),
                          done |-> IF next_env.done THEN 1 ELSE 0]
                     stored == SimplePush(memory, trainer.memory_size,
                                          experience)
                     found == TrainingMemory(memory, stored)
                     enough == ~NotEnoughSamples(Len(found),
                                                 train_config.batch_size)
                     feeds == /\ Ran(PassStatements, k,
                                     "self.policy_net(states)")
                              /\ enough
                     feeds_next == /\ Ran(PassStatements, k,
                                          "self.policy_net(next_states)")
                                   /\ enough
                     trains == /\ Ran(PassStatements, k, "self.optimizer.step()")
                               /\ enough
                     counts == /\ Ran(PassStatements, k,
                                      "self.training_steps += 1")
                               /\ enough
                     syncs == /\ Ran(PassStatements, k, "update_target_network")
                              /\ SyncDue(steps, train_config.target_update_freq)
                     fed == IF feeds
                            THEN TrainForward(policy_net, policy_training)
                            ELSE policy_net
                     fed_next == IF feeds_next
                                 THEN TrainForward(fed, policy_training)
                                 ELSE fed
                 IN  /\ (cut /\ IsStatement(PassStatements, k,
                                            "self.policy_net(state_tensor)"))
                            => sel.branch = "greedy"
                     /\ (cut /\ IsStatement(PassStatements, k,
                                            "self.policy_net(states)"))
                            => feeds
                     /\ (cut /\ IsStatement(PassStatements, k,
                                            "self.policy_net(next_states)"))
                            => feeds_next
                     /\ (cut /\ IsStatement(PassStatements, k, "self.optimizer.step()"))
                            => trains
                     /\ (cut /\ IsStatement(PassStatements, k, "self.training_steps += 1"))
                            => counts
                     /\ (cut /\ IsStatement(PassStatements, k, "update_target_network"))
                            => syncs
                     /\ env' = EnvStepPart(env, sel.action, dw, de, nw, ne,
                                           Max(0, k - 2))
                     /\ memory' = IF Ran(PassStatements, k, "store_experience")
                                  THEN stored ELSE memory
                     /\ policy_net' = IF trains THEN OptimizerStep(fed_next, w)
                                      ELSE fed_next
                     /\ optimizer_steps' =
                            IF trains THEN optimizer_steps + 1
                            ELSE optimizer_steps
                     /\ training_steps' =
                            IF counts THEN training_steps + 1
                            ELSE training_steps
                     /\ target_net' = IF syncs THEN SyncTarget(policy_net', target_net)
                                      ELSE target_net
                     /\ steps' = IF Ran(PassStatements, k, "self.agent.steps += 1")
                                 THEN steps + 1 ELSE steps
                     /\ \E idx \in Samples(Len(found),
                                  IF trains THEN train_config.batch_size ELSE 0) :
                         trainer' = [trainer EXCEPT
                            !.episode_reward =
                                IF Ran(PassStatements, k, "episode_reward += reward")
                                THEN @ + reward ELSE @,
                            !.step = IF Ran(PassStatements, k, "steps += 1")
                                     THEN @ + 1 ELSE @,
                            !.pc = IF cut THEN "interrupted"
                                   ELSE IF next_env.done
                                           \/ trainer.step + 1 >= EnvMaxSteps
                                   THEN "episode_end" ELSE "steps",
                            !.at = IF cut
                                   THEN [pc |-> "steps", done |-> k,
                                         torn |-> FALSE]
                                   ELSE @,
                            !.syncs = IF syncs
                                      THEN Append(@, [steps |-> steps,
                                              training_steps |-> training_steps',
                                              memory_len |-> Len(stored)])
                                      ELSE @,
                            !.last = IF cut THEN @
                                     ELSE
                                     [ran |-> TRUE, raised |-> FALSE,
                                      epsilon |-> epsilon, branch |-> sel.branch,
                                      action |-> sel.action,
                                      stored |-> experience, trained |-> trains,
                                      batch |-> [i \in DOMAIN idx |-> found[idx[i]]],
                                      synced |-> syncs, reward |-> reward,
                                      done |-> next_env.done]]
    /\ UNCHANGED <<policy_training, gamma, ret, last_sync, epsilon, disk>>
    /\ UNCHANGED <<ctl_vars, stats_vars, buf_vars>>

\* The outcomes of random.randint the passes of a training are followed
\* on: the first and the last action.
RandIntDraws == {a \in RandIntRange(ActionDim) : a = 0 \/ a = ActionDim - 1}

TrainerStep ==
    /\ trainer.pc = "steps"
    /\ Pass(PassLen, RandomDraws, RandIntDraws, StepRewards)

\* A pass of a training in which every draw is the same: the action is
\* explored and is 0, the reward is 0.
TrainerStepFixed ==
    /\ trainer.pc = "steps"
    /\ Pass(PassLen, {0}, {0}, {0})

\* The first k statements of the rest of a pass of train() after
\* _train_episode returned: the lists, the best model, the periodic
\* checkpoint, decay_epsilon; after the last episode the loop is left.
\* torn: the part is cut inside the torch.save of statement k + 1, which has
\* created the file and not finished writing it.
End(k, torn) ==
    LET best == IsNewBest(trainer.episode_reward, trainer.best_reward)
        check == trainer.episode % CheckpointEvery = 0
        cut == k < EndLen
        partial == PartialFile(AgentFields, trainer.episode)
        disk1 == IF best /\ Ran(EndStatements, k, "save_model(ddqn_best)")
                 THEN SaveModelTo(disk, BestPath, trainer.episode)
                 ELSE IF best /\ torn
                         /\ IsStatement(EndStatements, k + 1,
                                        "save_model(ddqn_best)")
                 THEN WriteFile(disk, BestPath, partial)
                 ELSE disk
        disk2 == IF check /\ Ran(EndStatements, k, "save_model(ddqn_ep)")
                 THEN SaveModelTo(disk1, CheckpointPath(trainer.episode),
                                  trainer.episode)
                 ELSE IF check /\ torn
                         /\ IsStatement(EndStatements, k + 1,
                                        "save_model(ddqn_ep)")
                 THEN WriteFile(disk1, CheckpointPath(trainer.episode), partial)
                 ELSE disk1
        decayed == Ran(EndStatements, k, "decay_epsilon")
    IN  /\ torn =>
              /\ cut
              /\ \/ /\ IsStatement(EndStatements, k + 1,
                                     "save_model(ddqn_best)")
                    /\ best
                 \/ /\ IsStatement(EndStatements, k + 1, "save_model(ddqn_ep)")
                    /\ check
        /\ disk' = disk2
        /\ trainer' = [trainer EXCEPT
               !.episode_rewards =
                   IF Ran(EndStatements, k, "episode_rewards.append")
                   THEN Append(@, trainer.episode_reward) ELSE @,
               !.episode_lengths =
                   IF Ran(EndStatements, k, "episode_lengths.append")
                   THEN Append(@, trainer.step) ELSE @,
               !.best_reward =
                   IF best /\ Ran(EndStatements, k, "self.best_reward")
                   THEN [set |-> TRUE, value |-> trainer.episode_reward]
                   ELSE @,
               !.best_episode =
                   IF best /\ Ran(EndStatements, k, "self.best_episode")
                   THEN trainer.episode ELSE @,
               !.decays = IF decayed THEN @ + 1 ELSE @,
               !.pc = IF cut THEN "interrupted"
                      ELSE IF trainer.episode >= trainer.num_episodes
                      THEN "closing" ELSE "next",
               !.at = IF cut
                      THEN [pc |-> "episode_end", done |-> k, torn |-> torn]
                      ELSE @]
        /\ epsilon' = IF decayed THEN DecayEpsilon(epsilon) ELSE epsilon
        /\ UNCHANGED <<steps, env>>
        /\ UNCHANGED <<ctl_vars, stats_vars, buf_vars, agent_vars>>

EpisodeEnd ==
    /\ trainer.pc = "episode_end"
    /\ End(EndLen, FALSE)

\* The end of train() after its loop: the summary is printed, the plots and
\* the log are written (the model keeps no record of them) and the agent is
\* returned.
TrainReturn ==
    /\ trainer.pc = "closing"
    /\ trainer' = [trainer EXCEPT !.pc = "finished"]
    /\ UNCHANGED <<disk, env, sched_vars>>
    /\ UNCHANGED <<ctl_vars, stats_vars, buf_vars, agent_vars>>

\* KeyboardInterrupt while train() runs: main() catches it and prints; it
\* saves nothing.  The interrupt arrives between two statements of train(),
\* of _train_episode, of reset(), of step() or of train_step, inside a
\* torch.save, or after the loop before train() returns.  A statement whose
\* test was false is passed with the one before it: the interrupt is taken
\* after a statement that ran (the forward pass of select_action: on the
\* greedy branch, where in train mode it is taken while the ValueError of
\* the refused batch unwinds).  The draws of a pass are made by
\* select_action, and the reward of env.step enters the state of the
\* training with store_experience: before them one value stands for all.
KeyboardInterrupt ==
    \/ /\ trainer.pc \in {"new", "next"}
       /\ \E k \in 0 .. (StartLen - 1) : Start(k)
    \/ /\ trainer.pc = "steps"
       /\ \E k \in 0 .. (PassLen - 1) :
            Pass(k,
                 IF Ran(PassStatements, k, "self.policy_net(state_tensor)")
                 THEN RandomDraws ELSE {0},
                 IF Ran(PassStatements, k, "select_action")
                 THEN RandIntDraws ELSE {0},
                 IF Ran(PassStatements, k, "store_experience")
                 THEN StepRewards ELSE {0})
    \/ /\ trainer.pc = "episode_end"
       /\ \E k \in 0 .. (EndLen - 1), torn \in BOOLEAN :
            /\ (/\ ~torn
                /\ \/ IsStatement(EndStatements, k, "self.best_reward")
                   \/ IsStatement(EndStatements, k, "self.best_episode")
                   \/ IsStatement(EndStatements, k, "save_model(ddqn_best)")) =>
                 IsNewBest(trainer.episode_reward, trainer.best_reward)
            /\ IsStatement(EndStatements, k, "save_model(ddqn_ep)") =>
                 trainer.episode % CheckpointEvery = 0
            /\ End(k, torn)
    \/ /\ trainer.pc = "closing"
       /\ trainer' = [trainer EXCEPT
              !.pc = "interrupted",
              !.at = [pc |-> "closing", done |-> 0, torn |-> FALSE]]
       /\ UNCHANGED <<disk, env, sched_vars>>
       /\ UNCHANGED <<ctl_vars, stats_vars, buf_vars, agent_vars>>

(***************************************************************************)
(* Initial states and the specifications.                                  *)
(***************************************************************************)
\* RLQoSController.__init__; _load_rl_agent returns None (the agent could not
\* be built or loaded), a fresh agent (no model file: policy_net in train
\* mode) or a loaded agent (load_model puts policy_net in eval mode).
CtlInit(agents) ==
    /\ datapaths = <<>>
    /\ flow_table = [d \in DPIDs |-> {}]
    /\ mac_to_port = [d \in DPIDs |-> [m \in Macs |-> Unlearned]]
    /\ current_action = InitialAction
    /\ rl_agent \in agents
    /\ rl_pc = "wait"
    /\ rl_sleep = 0
    /\ cycle = NoCycle
    /\ prev_cycle = NoCycle
    /\ installed = NoAction
    /\ mon_pc = "run"
    /\ mon_sleep = 0
    /\ mon = NoMon
    /\ stop_requested = FALSE

StatsInit ==
    /\ port_stats = <<>>
    /\ current_bandwidth = <<>>
    /\ reply = NoReply
    /\ left = FALSE
    /\ net_state = NoNetState
    /\ handler = NoHandler

\* The constructors of both buffers.
BufInit(capacities) ==
    /\ capacity \in capacities
    /\ sbuf = <<>>
    /\ pbuf = <<>>
    /\ priorities = <<>>
    /\ pos = 0
    /\ spushed = <<>>
    /\ ppushed = <<>>

\* DDQNAgent.__init__: the target network starts as a copy of the policy
\* network and in eval mode, the policy network is left in train mode.
AgentInit(weights, gammas) ==
    /\ policy_net \in {StateDict(w, 0) : w \in weights}
    /\ target_net = SyncTarget(policy_net, policy_net)
    /\ policy_training = TRUE
    /\ optimizer_steps = 0
    /\ training_steps = 0
    /\ memory = <<>>
    /\ gamma \in gammas
    /\ ret = NoRet
    /\ last_sync = [kind |-> "__init__", policy |-> policy_net,
                    target |-> target_net]
    /\ epsilon = train_config.epsilon_start
    /\ steps = 0

Init ==
    /\ CtlInit({LoadRlAgent(b) : b \in Bundles})
    /\ StatsInit
    /\ env = NoEnv
    /\ BufInit({1})
    /\ AgentInit({1}, {99})
    /\ TrainerInit

Next ==
    \/ \E dpid \in DPIDs : SwitchFeatures(dpid)
    \/ \E dpid \in PacketDevices : PacketIn(dpid)
    \/ RlWait
    \/ RlDecisionCycle
    \/ MonitorCycle
    \/ Tick

Spec == Init /\ [][Next]_vars

\* The controller while the application may be asked to stop.
NextFair ==
    \/ Next
    \/ StopSignal

\* The green threads of the hub are scheduled fairly: a loop that is due
\* runs, and time passes.
SpecFair ==
    /\ Init /\ [][NextFair]_vars
    /\ WF_vars(RlWait)
    /\ WF_vars(RlDecisionCycle)
    /\ WF_vars(MonitorCycle)
    /\ WF_vars(Tick)

InitBuf ==
    /\ CtlInit({"None"})
    /\ StatsInit
    /\ env = NoEnv
    /\ BufInit(1 .. MaxCapacity)
    /\ AgentInit({1}, {99})
    /\ TrainerInit

NextBuf ==
    \/ SimpleBufPush
    \/ PrioBufPush
    \/ PrioBufUpdatePriorities

SpecBuf == InitBuf /\ [][NextBuf]_vars

InitAgent ==
    /\ CtlInit({"None"})
    /\ StatsInit
    /\ env = NoEnv
    /\ BufInit({1})
    /\ AgentInit({1}, Gammas)
    /\ TrainerInit

\* The calls of the agent a training and a controller make.  decay_epsilon
\* and save_model are followed in SpecTrain and SpecPersist.
NextAgent ==
    \/ SelectActionCall
    \/ StoreExperience
    \/ TrainStep
    \/ UpdateTargetNetwork
    \/ LoadModel

SpecAgent == InitAgent /\ [][NextAgent]_vars

\* Action selection in both modes of the policy network: a fresh agent is
\* in train mode, a loaded one in eval mode, on every parameter setting.
NextSelect ==
    \/ SelectActionCall
    \/ LoadModel

SpecSelect == InitAgent /\ [][NextSelect]_vars

InitStats ==
    /\ CtlInit({"None"})
    /\ StatsInit
    /\ env = NoEnv
    /\ BufInit({1})
    /\ AgentInit({1}, {99})
    /\ TrainerInit

NextStats ==
    \/ PortStatsReply
    \/ DeviceLeaves
    \/ GetNetworkStateCall

SpecStats == InitStats /\ [][NextStats]_vars

\* A training: the trainer as constructed, with its agent and environment.
InitTrain ==
    /\ CtlInit({"None"})
    /\ StatsInit
    /\ BufInit({1})
    /\ AgentInit({1}, {99})
    /\ TrainerInit
    /\ env = EnvResetTo(8, 50, 50, 5, 5)

NextTrain ==
    \/ EpisodeStart
    \/ TrainerStep
    \/ EpisodeEnd
    \/ TrainReturn
    \/ KeyboardInterrupt

SpecTrain == InitTrain /\ [][NextTrain]_vars

\* One training that reaches the periodic checkpoint: train(100), every
\* draw of its passes the same.
InitCheckpoint ==
    /\ CtlInit({"None"})
    /\ StatsInit
    /\ BufInit({1})
    /\ AgentInit({1}, {99})
    /\ disk = NoFiles
    /\ trainer = [NoTrainer EXCEPT !.num_episodes = CheckpointEvery]
    /\ env = EnvResetTo(8, 50, 50, 5, 5)

NextCheckpoint ==
    \/ EpisodeStart
    \/ TrainerStepFixed
    \/ EpisodeEnd
    \/ TrainReturn
    \/ KeyboardInterrupt

SpecCheckpoint == InitCheckpoint /\ [][NextCheckpoint]_vars

\* A pass of a training whose rewards are all 0.
TrainerStepNoReward ==
    /\ trainer.pc = "steps"
    /\ Pass(PassLen, RandomDraws, RandIntDraws, {0})

\* A training whose memory is larger than a batch, as in the default
\* configuration, and whose rewards are all 0.
InitSync ==
    /\ CtlInit({"None"})
    /\ StatsInit
    /\ BufInit({1})
    /\ AgentInit({1}, {99})
    /\ disk = NoFiles
    /\ trainer = [NoTrainer EXCEPT !.memory_size = train_config.batch_size + 1]
    /\ env = EnvResetTo(8, 50, 50, 5, 5)

NextSync ==
    \/ EpisodeStart
    \/ TrainerStepNoReward
    \/ EpisodeEnd
    \/ TrainReturn
    \/ KeyboardInterrupt

SpecSync == InitSync /\ [][NextSync]_vars

\* Persistence: an agent in any state a training leaves it in, its files,
\* and another agent of the same architecture.
InitPersist ==
    /\ CtlInit({"None"})
    /\ StatsInit
    /\ BufInit({1})
    /\ env = NoEnv
    /\ trainer = NoTrainer
    /\ disk = NoFiles
    /\ optimizer_steps \in 0 .. MaxSteps
    /\ training_steps = optimizer_steps
    /\ policy_net \in {StateDict(w, 2 * training_steps) : w \in Weights}
    /\ target_net \in {policy_net}
            \cup {StateDict(w, 2 * Max(0, training_steps - 1)) : w \in Weights}
    /\ policy_training = TRUE
    /\ steps \in {training_steps, training_steps + 2}
    /\ epsilon \in {train_config.epsilon_start, train_config.epsilon_end}
    /\ memory = <<>>
    /\ gamma = 99
    /\ ret = NoRet
    /\ last_sync = [kind |-> "__init__", policy |-> policy_net,
                    target |-> target_net]

NextPersist ==
    \/ SaveModel
    \/ LoadModelFile
    \/ NewAgent

SpecPersist == InitPersist /\ [][NextPersist]_vars

\* The reply handler statement by statement and the aggregation of the
\* decision loop, as the hub schedules the two green threads.
NextRace ==
    \/ HandlerBegin
    \/ HandlerBandwidth
    \/ HandlerStats
    \/ GetNetworkStateCall

SpecRace == InitStats /\ [][NextRace]_vars

\* The tables _get_network_state may find.  A port has no entry, or the
\* counters of its last reply; its bandwidth has no entry, or is zero (the
\* counters did not grow), or is positive for a counter that has grown: the
\* value depends on the time between two replies, which may be short.
EstPorts == {1, 2, 3}

EstSamples ==
    StatSamples \cup
    {[rx_bytes |-> 125000, tx_bytes |-> 125000, rx_packets |-> 100,
      tx_packets |-> 0, rx_dropped |-> 60, tx_dropped |-> 0]}

EstBandwidths ==
    {[rx |-> 0, tx |-> 0], [rx |-> 60000, tx |-> 0],
     [rx |-> 100000, tx |-> 100000]}

EstTables ==
    {t \in [stats : UNION {[S -> EstSamples] : S \in SUBSET EstPorts},
            bw : UNION {[S -> EstBandwidths] : S \in SUBSET EstPorts}] :
        /\ DOMAIN t.bw \subseteq DOMAIN t.stats
        /\ \A p \in DOMAIN t.bw :
              /\ t.bw[p].rx > 0 => t.stats[p].rx_bytes > 0
              /\ t.bw[p].tx > 0 => t.stats[p].tx_bytes > 0}

\* The two producers of state vectors: the controller with the tables of
\* its statistics, and a NetworkEnvironment as its constructor leaves it.
InitState ==
    /\ CtlInit({"None"})
    /\ BufInit({1})
    /\ AgentInit({1}, {99})
    /\ TrainerInit
    /\ reply = NoReply
    /\ left = FALSE
    /\ net_state = NoNetState
    /\ handler = NoHandler
    /\ \/ /\ \E t \in EstTables :
                /\ port_stats = [p \in DOMAIN t.stats |-> StatEntry(t.stats[p], 0)]
                /\ current_bandwidth = t.bw
          /\ env = NoEnv
       \/ /\ port_stats = <<>>
          /\ current_bandwidth = <<>>
          /\ env \in {EnvResetTo(hour, wd, ed, nw, ne) :
                         hour \in ResetHours, wd \in Demands, ed \in Demands,
                         nw \in ObsNoise, ne \in ObsNoise}

NextState ==
    \/ GetNetworkStateCall
    \/ EnvReset
    \/ EnvStep

SpecState == InitState /\ [][NextState]_vars


(***************************************************************************)
(* Claims about the decision loop and the enforcement of the QoS rules     *)
(* (Spec).                                                                 *)
(***************************************************************************)
\* The device _apply_qos_policy talks to: the first value of self.datapaths.
FirstDevice == datapaths[1]

\* C1 (as stated): in every decision cycle _apply_qos_policy is started if
\* and only if the selected action differs from current_action, flow-mods are
\* sent only then, and when two consecutive cycles select the same action the
\* second one sends no flow-mod.
C1_DebounceAsStated ==
    cycle.ran =>
        /\ cycle.invoked <=>
              (cycle.selected \in Actions /\ cycle.selected # cycle.before)
        /\ cycle.sent > 0 => cycle.invoked
        /\ (prev_cycle.ran /\ prev_cycle.selected \in Actions
              /\ cycle.selected = prev_cycle.selected) => cycle.sent = 0

\* C1 (amended): in every decision cycle _apply_qos_policy is started if and
\* only if the selected action differs from current_action, flow-mods are
\* sent only then, and when two consecutive cycles select the same action and
\* the first of them ended without an error, the second one sends no
\* flow-mod.
C1_Debounce ==
    cycle.ran =>
        /\ cycle.invoked <=>
              (cycle.selected \in Actions /\ cycle.selected # cycle.before)
        /\ cycle.sent > 0 => cycle.invoked
        /\ (prev_cycle.ran /\ prev_cycle.selected \in Actions
              /\ ~prev_cycle.failed
              /\ cycle.selected = prev_cycle.selected) => cycle.sent = 0

\* Two consecutive cycles selected the same action, the first applied it
\* without error and the second sent nothing.
C1_Witness ==
    /\ cycle.ran /\ prev_cycle.ran
    /\ prev_cycle.invoked /\ ~prev_cycle.failed
    /\ prev_cycle.sent = Len(ApplyOrder)
    /\ cycle.selected = prev_cycle.selected
    /\ cycle.sent = 0

\* C2: right after _apply_qos_policy(a) returned, the device holds for every
\* port of each class exactly one QoS rule, and it sets the queue
\* queue_config[a][class].
C2_OneRulePerPort ==
    (cycle.ran /\ cycle.invoked /\ ~cycle.failed /\ rl_sleep = DecisionPeriod) =>
        \A port \in ClassPorts :
            LET rules == QosRules(flow_table[FirstDevice], port)
            IN  /\ Cardinality(rules) = 1
                /\ \A e \in rules :
                      e.queue = queue_config(cycle.selected, ClassOf(port))

\* An Apply returned two seconds after an earlier Apply of another action,
\* whose rules were still on the device.
C2_Witness ==
    /\ cycle.ran /\ cycle.invoked /\ ~cycle.failed
    /\ prev_cycle.ran /\ prev_cycle.invoked /\ ~prev_cycle.failed
    /\ cycle.selected # prev_cycle.selected
    /\ rl_sleep = DecisionPeriod

\* C3: at the end of every decision cycle that selects the action of the
\* last Apply, which returned and has been selected by every cycle since,
\* every port of each class has its QoS rule on the device.
C3_RuleStaysValid ==
    (cycle.ran /\ ~cycle.failed /\ rl_sleep = DecisionPeriod
        /\ installed \in Actions /\ cycle.selected = installed) =>
        \A port \in ClassPorts : QosRules(flow_table[FirstDevice], port) # {}


(***************************************************************************)
(* Claims about the replay buffers (SpecBuf).                              *)
(***************************************************************************)
LastN(seq, n) == SubSeq(seq, Len(seq) - n + 1, Len(seq))

Elems(seq) == {seq[i] : i \in 1 .. Len(seq)}

\* C4: after n pushes a buffer of capacity C holds exactly the last min(n, C)
\* pushed experiences, so its size never exceeds C and older experiences are
\* gone; the deque keeps them in the order of the pushes, the ring in its
\* slots.
C4_FifoEviction ==
    LET ns == Min(Len(spushed), capacity)
        np == Min(Len(ppushed), capacity)
    IN  /\ Len(sbuf) = ns
        /\ sbuf = LastN(spushed, ns)
        /\ Len(pbuf) = np
        /\ Len(priorities) = np
        /\ Elems(pbuf) = Elems(LastN(ppushed, np))

\* Both buffers have taken two pushes more than their capacity of at least 2.
C4_Witness ==
    /\ capacity >= 2
    /\ Len(spushed) = capacity + 2
    /\ Len(ppushed) = capacity + 2
    /\ ~(1 \in Elems(sbuf)) /\ ~(2 \in Elems(sbuf))
    /\ ~(1 \in Elems(pbuf)) /\ ~(2 \in Elems(pbuf))

(***************************************************************************)
(* Claims about the agent (SpecAgent).                                     *)
(***************************************************************************)
\* C5: a train_step called while the memory holds fewer than batch_size
\* experiences returns None without raising and changes neither network, nor
\* the optimizer state, nor training_steps, nor the memory.
C5_TrainStepNoOp ==
    [][(ret'.op = "train_step" /\ Len(memory) < BatchSize) =>
          /\ ret'.value = "None"
          /\ ~ret'.raised
          /\ UNCHANGED <<policy_net, policy_training, target_net,
                         optimizer_steps, training_steps, memory>>]_vars

\* train_step returned None on a memory one experience short of a batch.
C5_Witness ==
    /\ ret.op = "train_step"
    /\ ret.value = "None"
    /\ Len(memory) = BatchSize - 1

\* C6: in a train_step that trained, the target of every sampled transition
\* with done = 1 is its reward (in hundredths), whatever gamma and the
\* networks are.
C6_TerminalTarget ==
    (ret.op = "train_step" /\ ret.value = "loss") =>
        \A i \in 1 .. Len(ret.batch) :
            ret.batch[i].done = 1 => ret.targets[i] = ret.batch[i].reward * 100

\* A trained batch holds a terminal transition whose bootstrapped term would
\* not be zero: gamma and the target network's value are positive.
C6_Witness ==
    /\ ret.op = "train_step" /\ ret.value = "loss"
    /\ \E i \in 1 .. Len(ret.batch) :
          /\ ret.batch[i].done = 1
          /\ gamma * Forward(target_net, ret.batch[i].next_state)[
                          ret.next_actions[i] + 1] > 0

\* C7: in a train_step that trained, the target of every sampled transition
\* is reward + gamma * (1 - done) * Q_target(next_state, a), where a is an
\* action of maximal value in the policy network's output for next_state.
C7_DoubleDqnTarget ==
    (ret.op = "train_step" /\ ret.value = "loss") =>
        \A i \in 1 .. Len(ret.batch) :
            \E a \in Actions :
                /\ \A b \in Actions :
                      ret.policy_out[i][b + 1] <= ret.policy_out[i][a + 1]
                /\ ret.targets[i] =
                      ret.batch[i].reward * 100
                        + gamma * (1 - ret.batch[i].done)
                            * Forward(target_net, ret.batch[i].next_state)[a + 1]

\* A trained batch holds a non-terminal transition for which the two networks
\* prefer different actions, of different value for the target network.
C7_Witness ==
    /\ ret.op = "train_step" /\ ret.value = "loss"
    /\ \E i \in 1 .. Len(ret.batch) :
          LET tq == Forward(target_net, ret.batch[i].next_state)
          IN  /\ ret.batch[i].done = 0
              /\ tq[ret.next_actions[i] + 1] # tq[Argmax(tq) + 1]

\* C8: select_action(state, 0.0) takes the greedy branch and returns the
\* action of lowest index among those of maximal value in the policy
\* network's output for the state.
C8_GreedyDeterministic ==
    (ret.op = "select_action" /\ ret.epsilon = 0) =>
        /\ ~ret.raised
        /\ ret.branch = "greedy"
        /\ ret.action \in Actions
        /\ LET q == Forward(policy_net, ret.state)
           IN  /\ \A b \in Actions : q[b + 1] <= q[ret.action + 1]
               /\ \A b \in Actions : b < ret.action => q[b + 1] < q[ret.action + 1]

\* C9: select_action(state, 1.0) takes the exploration branch, does not
\* consult the policy network (so it returns in either mode of the network)
\* and returns a member of the action set.
C9_ExploreInActionSet ==
    (ret.op = "select_action" /\ ret.epsilon = 100) =>
        /\ ~ret.raised
        /\ ret.branch = "explore"
        /\ ret.action \in Actions

\* select_action(state, 1.0) returned the last action of the set, on a
\* policy network in train mode.
C9_Witness ==
    /\ ret.op = "select_action" /\ ret.epsilon = 100
    /\ policy_training
    /\ ret.action = ActionDim - 1

(***************************************************************************)
(* Claims about the port statistics (SpecStats).                           *)
(***************************************************************************)
\* C10: when a reply is processed, the stored rx and tx bandwidth of each of
\* its ports becomes max(0, (bytes_now - bytes_prev) * 8 / (elapsed * 1e6))
\* if elapsed > 0 and stays as it was otherwise; 125000 bytes in one second
\* give 1.0 Mbps, a counter that went down gives 0, and no stored bandwidth
\* is negative.
C10_BandwidthUpdate ==
    [][/\ \A p \in reply'.ports : ~(p > MaxPortNo) =>
            LET had == p \in DOMAIN port_stats
                prev_ts == IF had THEN port_stats[p].timestamp
                                  ELSE reply'.now - reply'.elapsed[p]
                prev_rx == IF had THEN port_stats[p].rx_bytes ELSE 0
                prev_tx == IF had THEN port_stats[p].tx_bytes ELSE 0
                d_rx == port_stats'[p].rx_bytes - prev_rx
                d_tx == port_stats'[p].tx_bytes - prev_tx
                elapsed == reply'.now - prev_ts
            IN  IF elapsed > 0
                THEN /\ p \in DOMAIN current_bandwidth'
                     /\ current_bandwidth'[p].rx =
                          Max(0, (d_rx * 8 * 1000) \div (elapsed * 1000000))
                     /\ current_bandwidth'[p].tx =
                          Max(0, (d_tx * 8 * 1000) \div (elapsed * 1000000))
                     /\ (d_rx = 125000 /\ elapsed = 1) =>
                            current_bandwidth'[p].rx = 1000
                     /\ d_rx < 0 => current_bandwidth'[p].rx = 0
                     /\ d_tx < 0 => current_bandwidth'[p].tx = 0
                ELSE /\ (p \in DOMAIN current_bandwidth')
                            <=> (p \in DOMAIN current_bandwidth)
                     /\ p \in DOMAIN current_bandwidth =>
                            current_bandwidth'[p] = current_bandwidth[p]
       /\ \A p \in DOMAIN current_bandwidth' :
            current_bandwidth'[p].rx >= 0 /\ current_bandwidth'[p].tx >= 0]_vars

\* Port 1 went from 125000 to 250000 received bytes in one second and its
\* stored bandwidth is 1.0 Mbps.
C10_Witness ==
    /\ reply.ran
    /\ 1 \in DOMAIN reply.elapsed
    /\ reply.elapsed[1] = 1
    /\ port_stats[1].rx_bytes = 250000
    /\ current_bandwidth[1].rx = 1000

(***************************************************************************)
(* Claims about the priorities of PrioritizedReplayBuffer (SpecBuf).       *)
(***************************************************************************)
\* C20: after any pushes and update_priorities with non-negative magnitudes,
\* every stored priority is strictly greater than 0: a push stores the
\* current maximum (1.0 into an empty buffer), an update stores the magnitude
\* plus the floor constant.
C20_PrioritiesPositive ==
    /\ Len(priorities) = Len(pbuf)
    /\ \A i \in 1 .. Len(priorities) : priorities[i] > 0
    /\ \A i \in 1 .. Len(priorities) :
          \/ priorities[i] = PriorityOne
          \/ \E l \in Losses : priorities[i] = l + PriorityFloor

\* An entry was updated with magnitude 0 and holds the floor constant, next
\* to an entry pushed afterwards with the maximum of the stored priorities.
C20_Witness ==
    /\ Len(priorities) >= 2
    /\ \E i, j \in 1 .. Len(priorities) :
          /\ priorities[i] = PriorityFloor
          /\ priorities[j] > PriorityOne
          /\ pbuf[j] > pbuf[i]

(***************************************************************************)
(* Claims about the target network (SpecAgent).                            *)
(***************************************************************************)
\* C12 as stated: at every point the target weights equal the policy weights
\* as they were at the most recent hard sync, where construction,
\* update_target_network and load_model all count as a hard sync.
C12_TargetIsPolicyAtSync == target_net = last_sync.policy

\* C12, amended: the target weights are what the most recent construction,
\* update_target_network or load_model left; construction and
\* update_target_network leave the policy weights of that moment, load_model
\* leaves the target weights of the bundle; update_target_network makes the
\* target equal to the policy without changing the policy, and train_step
\* never changes the target weights.
C12_TargetFrozenSinceSync ==
    /\ [](/\ target_net = last_sync.target
          /\ last_sync.kind # "load_model" => target_net = last_sync.policy)
    /\ [][/\ ret'.op = "update_target_network" =>
                (target_net' = policy_net /\ policy_net' = policy_net)
          /\ ret'.op = "train_step" => target_net' = target_net]_vars

\* A train_step moved the policy weights away from the target, which still
\* holds the weights of the last update_target_network.
C12_Witness ==
    /\ ret.op = "train_step"
    /\ ret.value = "loss"
    /\ last_sync.kind = "update_target_network"
    /\ policy_net # target_net
    /\ target_net = last_sync.policy

(***************************************************************************)
(* Claims about the loops of the controller (Spec, SpecFair).              *)
(***************************************************************************)
\* C13: when the persisted bundle is missing or its loading raises, start-up
\* completes and every decision cycle serves an action computed by a
\* randomly initialized policy network.
C13_FallbackServesPolicy ==
    (/\ rl_agent \in {LoadRlAgent("missing"), LoadRlAgent("incompatible")}
     /\ cycle.ran)
        => (cycle.selector = "select_action" /\ cycle.selected \in Actions)

\* C14: the monitor loop never ends because of an error: after a failed
\* query it is still running and polls every known device in its next pass.
C14_MonitorNeverDies ==
    /\ mon_pc = "run"
    /\ (mon.ran /\ ~mon.raised) => mon.polled = SubSeq(datapaths, 1, Len(mon.polled))

\* C15: when the Apply of a decision cycle raises, the loop goes on,
\* current_action keeps the value it had before the cycle, and a next cycle
\* that selects the same action invokes the Apply again; current_action
\* changes only in a cycle whose Apply returned, and then to the action that
\* cycle selected.
C15_FailedApplyRetried ==
    /\ []((cycle.invoked /\ cycle.failed) =>
            (/\ current_action = cycle.before
             /\ current_action # cycle.selected
             /\ rl_pc = "run"))
    /\ []((/\ prev_cycle.invoked /\ prev_cycle.failed
           /\ cycle.ran /\ cycle.selected = prev_cycle.selected) => cycle.invoked)
    /\ [][current_action' # current_action =>
            (/\ cycle'.invoked /\ ~cycle'.failed
             /\ cycle'.selected = current_action')]_vars

\* The Apply of a cycle raised after some of its messages, the next cycle
\* selected the same action, invoked the Apply again, and it returned.
C15_Witness ==
    /\ prev_cycle.invoked /\ prev_cycle.failed /\ prev_cycle.sent > 0
    /\ cycle.ran /\ cycle.selected = prev_cycle.selected
    /\ cycle.invoked /\ ~cycle.failed
    /\ current_action = cycle.selected
    /\ current_action # prev_cycle.before

\* C16: no decision cycle runs while no device has registered (the loop
\* sleeps between its looks at self.datapaths), and every decision cycle
\* uses select_action with epsilon = 0.  That cycles start once a device
\* has registered is checked apart, under SpecFair (C16_CyclesStart).
C16_WaitsThenGreedyCycles ==
    /\ datapaths = <<>> => (~cycle.ran /\ rl_pc = "wait" /\ rl_sleep <= WaitPeriod)
    /\ cycle.ran => (cycle.selector = "select_action" /\ cycle.epsilon = 0)

\* Once a device has registered, a decision cycle eventually runs.
C16_CyclesStart == (datapaths # <<>>) ~> cycle.ran

\* C18: after an external stop signal both periodic loops eventually
\* terminate.
C18_StopTerminatesLoops ==
    stop_requested ~> (rl_pc = "stopped" /\ mon_pc # "run")

(***************************************************************************)
(* Claims about the state estimator (SpecStats).                           *)
(***************************************************************************)
\* C17: a state vector produced after the device has disconnected carries
\* zero bandwidth for the ports of that device.
C17_LeftContributesZero ==
    (net_state.ran /\ net_state.after_left) =>
        (/\ net_state.state[1] = 0
         /\ net_state.state[2] = 0
         /\ net_state.work_bw = 0
         /\ net_state.entertainment_bw = 0)

(***************************************************************************)
(* Claims about the state vectors (SpecState).                             *)
(***************************************************************************)
\* C11: every state vector, of the controller's _get_network_state and of
\* the environment's _get_state, has 8 components and each lies in [0, 1].
C11_StateInUnitRange ==
    /\ net_state.ran =>
          (/\ Len(net_state.state) = 8
           /\ \A i \in 1 .. 8 :
                 0 <= net_state.state[i] /\ net_state.state[i] <= StateOne)
    /\ env.made =>
          (/\ Len(env.state) = 8
           /\ \A i \in 1 .. 8 : 0 <= env.state[i] /\ env.state[i] <= StateOne)

\* The work ports carry 260 Mbps and have lost 1.2 of their packets between
\* them: both components are held at 1.0, at hour 23.
C11_Witness ==
    /\ net_state.ran
    /\ net_state.work_bw > TotalBwMbps * 1000
    /\ ClassLoss(port_stats, "work") > StateOne
    /\ net_state.state[1] = StateOne
    /\ net_state.state[5] = StateOne
    /\ net_state.state[8] = StateOne

\* C19: in the environment, a class whose demand is above the bandwidth
\* allocated to it has a loss ratio above 0 in the state vector returned.
C19_StarvedClassLoses ==
    env.made =>
        (/\ env.obs_work_demand > env.work_allocated => env.state[5] > 0
         /\ env.obs_entertain_demand > env.entertain_allocated => env.state[6] > 0)

\* A step allocated 30 Mbps to work, whose demand is above it while the
\* total demand stays below the congestion threshold.
C19_Witness ==
    /\ env.made
    /\ env.op = "step"
    /\ env.obs_work_demand > env.work_allocated
    /\ env.obs_work_demand + env.obs_entertain_demand <= CongestionLossFrom
    /\ env.state[5] > 0
    /\ env.state[6] = 0

(***************************************************************************)
(* Claims about the believed and the installed action (Spec).              *)
(***************************************************************************)
\* C30: at the end of every decision cycle, the QoS rules the first device
\* holds for the ports of each class, which are the rules last sent for
\* them, bind the queue queue_config[current_action][class].
C30_BelievedIsInstalled ==
    (cycle.ran /\ rl_sleep = DecisionPeriod) =>
        \A port \in ClassPorts :
            \A e \in QosRules(flow_table[FirstDevice], port) :
                e.queue = queue_config(current_action, ClassOf(port))

(***************************************************************************)
(* Claims about the loss ratio of the live state vector (SpecStats).       *)
(***************************************************************************)
\* Dropped delta / max(packet delta, 1) of one port between the snapshot
\* before the last reply and the stored one, in units of 1e-4, within [0,1].
DeltaLoss(p) ==
    IF p \in DOMAIN reply.before /\ p \in DOMAIN port_stats
    THEN LET dropped == (port_stats[p].rx_dropped + port_stats[p].tx_dropped)
                            - reply.before[p].dropped
             packets == (port_stats[p].rx_packets + port_stats[p].tx_packets)
                            - reply.before[p].packets
         IN  Max(0, Min(StateOne, (dropped * StateOne) \div Max(packets, 1)))
    ELSE 0

\* C23: the loss ratio of a class in the state vector is the dropped-packet
\* delta over max(packet delta, 1) between the last two snapshots, within
\* [0,1]; counts from before the previous snapshot do not enter it.
C23_LossFromDeltas ==
    [][(net_state' # net_state /\ reply.ran) =>
        /\ net_state'.state[5] = Min(StateOne,
              SumOver(device_ports["work"],
                      [p \in device_ports["work"] |-> DeltaLoss(p)]))
        /\ net_state'.state[6] = Min(StateOne,
              SumOver(device_ports["entertainment"],
                      [p \in device_ports["entertainment"] |-> DeltaLoss(p)]))]_vars

(***************************************************************************)
(* Claims about the trainer (SpecTrain, SpecSync, SpecCheckpoint).         *)
(***************************************************************************)
\* The episodes train() has completed: _train_episode returned and the rest
\* of the pass, decay_epsilon included, has run.
CompletedEpisodes ==
    LET cut == trainer.pc = "interrupted"
        p == IF cut THEN trainer.at.pc ELSE trainer.pc
    IN  IF p \in {"closing", "finished"} THEN trainer.episode
        ELSE IF p \in {"new", "next"}
        THEN (IF cut /\ trainer.at.done >= 1 THEN trainer.episode - 1
              ELSE trainer.episode)
        ELSE trainer.episode - 1

RECURSIVE Pow(_, _)
Pow(b, n) == IF n = 0 THEN 1 ELSE b * Pow(b, n - 1)

RECURSIVE Gcd(_, _)
Gcd(a, b) == IF b = 0 THEN a ELSE Gcd(b, a % b)

\* epsilon_decay as a fraction in lowest terms.
DecayNum == train_config.epsilon_decay \div Gcd(train_config.epsilon_decay, 100)
DecayDen == 100 \div Gcd(train_config.epsilon_decay, 100)

\* C21 (as stated): between two consecutive calls of update_target_network
\* exactly target_update_freq train_step updates are performed.
C21_SyncEveryFreqTrainSteps ==
    \A i \in 2 .. Len(trainer.syncs) :
        trainer.syncs[i].training_steps - trainer.syncs[i - 1].training_steps
            = train_config.target_update_freq

\* C21 (amended): between two consecutive calls of update_target_network
\* exactly target_update_freq passes of the trainer's loop are performed, the
\* first call being in the first pass; at most target_update_freq train_step
\* updates fall between them, and exactly that many once the memory held
\* batch_size - 1 experiences at the earlier call.
C21_SyncEveryFreqSteps ==
    /\ trainer.syncs # <<>> => trainer.syncs[1].steps = 0
    /\ \A i \in 2 .. Len(trainer.syncs) :
        LET trained == trainer.syncs[i].training_steps
                           - trainer.syncs[i - 1].training_steps
        IN  /\ trainer.syncs[i].steps - trainer.syncs[i - 1].steps
                    = train_config.target_update_freq
            /\ trained <= train_config.target_update_freq
            /\ trainer.syncs[i - 1].memory_len >= train_config.batch_size - 1
                    => trained = train_config.target_update_freq

C21_Witness ==
    /\ Len(trainer.syncs) >= 3
    /\ trainer.syncs[2].training_steps - trainer.syncs[1].training_steps
            < train_config.target_update_freq
    /\ trainer.syncs[3].training_steps - trainer.syncs[2].training_steps
            = train_config.target_update_freq
    /\ trainer.syncs[3].steps - trainer.syncs[2].steps
            = train_config.target_update_freq
    /\ trainer.syncs[3].memory_len > train_config.batch_size
    /\ trainer.syncs[3].memory_len = trainer.memory_size

\* C22: decay_epsilon has been called once per completed episode (between
\* two passes of train() and after the last one the calls, the rewards
\* recorded and the episodes started are as many; inside a pass the call
\* of its episode is still to come) and after n completed episodes epsilon
\* is max(epsilon_end, epsilon_start * epsilon_decay^n) (both sides times
\* the n-th power of the denominator of epsilon_decay); epsilon never grows
\* and is never below epsilon_end.
C22_EpsilonSchedule ==
    /\ [](/\ trainer.decays = CompletedEpisodes
          /\ trainer.decays <= Len(trainer.episode_rewards)
          /\ Len(trainer.episode_rewards) <= trainer.decays + 1
          /\ trainer.pc \in {"next", "closing", "finished"} =>
                /\ trainer.decays = trainer.episode
                /\ trainer.decays = Len(trainer.episode_rewards)
          /\ epsilon * Pow(DecayDen, trainer.decays) =
                Max(train_config.epsilon_end * Pow(DecayDen, trainer.decays),
                    train_config.epsilon_start * Pow(DecayNum, trainer.decays))
          /\ epsilon >= train_config.epsilon_end)
    /\ [][epsilon' <= epsilon]_vars

\* The third decay reached the floor; the first two were geometric and
\* above it.
C22_Witness ==
    /\ trainer.decays = 3
    /\ trainer.pc \in {"closing", "finished"}
    /\ epsilon = train_config.epsilon_end
    /\ train_config.epsilon_start * Pow(DecayNum, 3)
           < train_config.epsilon_end * Pow(DecayDen, 3)
    /\ train_config.epsilon_start * Pow(DecayNum, 2)
           > train_config.epsilon_end * Pow(DecayDen, 2)
    /\ train_config.epsilon_start * DecayNum
           < train_config.epsilon_start * DecayDen

\* C25: after each completed episode best_reward is the largest cumulative
\* reward of the episodes so far, best_episode is the first episode that
\* reached it, and the best-model file was last written in that episode: an
\* equal or lower reward of a later episode does not overwrite it.
C25_BestModelTracking ==
    trainer.pc \in {"next", "closing", "finished"} =>
        LET rewards == trainer.episode_rewards
            e == Len(rewards)
        IN  /\ e = trainer.episode
            /\ trainer.best_reward.set
            /\ \A i \in 1 .. e : rewards[i] <= trainer.best_reward.value
            /\ trainer.best_episode \in 1 .. e
            /\ rewards[trainer.best_episode] = trainer.best_reward.value
            /\ \A i \in 1 .. (trainer.best_episode - 1) :
                    rewards[i] < trainer.best_reward.value
            /\ BestPath \in DOMAIN disk
            /\ disk[BestPath].complete
            /\ disk[BestPath].episode = trainer.best_episode

C25_Witness ==
    /\ trainer.pc \in {"next", "closing", "finished"}
    /\ Len(trainer.episode_rewards) = 2
    /\ trainer.episode_rewards[2] = trainer.episode_rewards[1]
    /\ trainer.best_episode = 1
    /\ disk[BestPath].episode = 1

\* C26: when train(num_episodes) has ended without an interrupt, it has run
\* exactly num_episodes episodes, and every episode took exactly
\* env.max_steps steps.
C26_RunsAllEpisodes ==
    trainer.pc \in {"finished", "raised"} =>
        /\ trainer.pc = "finished"
        /\ Len(trainer.episode_lengths) = NumEpisodes
        /\ \A i \in 1 .. NumEpisodes : trainer.episode_lengths[i] = EnvMaxSteps

\* What an interrupted pass of the trainer's loop has done is a prefix of
\* the order of C27: each operation found done has the earlier ones done,
\* and the step counter of the agent, which is last, is not advanced.  A
\* pass cut in a select_action that raises has only counted the refused
\* batch.
StepOrderOfCutPass ==
    LET stepped == /\ env'.step_count = env.step_count + 1
                   /\ env'.hour = (env.hour + 1) % 24
                   /\ env'.work_demand \in EnvMinDemand .. EnvMaxDemand
                   /\ env'.entertain_demand \in EnvMinDemand .. EnvMaxDemand
        stored == /\ stepped
                  /\ memory' # <<>>
                  /\ memory'[Len(memory')].state = EnvNetState(env)
                  /\ memory'[Len(memory')].next_state = EnvNetState(env')
                  /\ \E e \in {memory'[Len(memory')]} :
                        memory' = SimplePush(memory, trainer.memory_size, e)
        enough == Len(memory') >= train_config.batch_size
        fed == stored /\ enough /\ policy_net'.batches = policy_net.batches + 2
        stepped_opt == /\ fed
                       /\ optimizer_steps' = optimizer_steps + 1
                       /\ policy_net'.params # policy_net.params
        trained == stepped_opt /\ training_steps' = training_steps + 1
        train_done == stored /\ (enough => trained)
        sync_done == /\ train_done
                     /\ SyncDue(steps, train_config.target_update_freq)
                            => target_net' = policy_net'
    IN  /\ steps' = steps
        /\ memory' # memory => stored
        /\ policy_net' # policy_net =>
                \/ /\ policy_net' = RefusedForward(policy_net)
                   /\ UNCHANGED <<env, memory, target_net, optimizer_steps,
                                  training_steps>>
                   /\ trainer'.episode_reward = trainer.episode_reward
                   /\ trainer'.step = trainer.step
                \/ stored /\ enough
        /\ optimizer_steps' # optimizer_steps => stepped_opt
        /\ training_steps' # training_steps => trained
        /\ target_net' # target_net =>
                /\ train_done
                /\ SyncDue(steps, train_config.target_update_freq)
                /\ target_net' = policy_net'
        /\ trainer'.episode_reward # trainer.episode_reward => sync_done
        /\ trainer'.step # trainer.step =>
                /\ sync_done
                /\ trainer'.episode_reward - trainer.episode_reward
                        \in StepRewards

\* C27: a pass of the trainer's loop selects the action with the current
\* epsilon, steps the environment with it, stores the experience, runs
\* train_step if and only if the memory, the new experience included, holds
\* batch_size experiences (the batch is drawn from that memory; both
\* forward passes of the policy network come before the optimizer step),
\* then syncs the target network with the policy network as train_step left
\* it if the step counter is due, and adds the reward; a pass that is
\* interrupted has done a prefix of this order.
C27_StepOrder ==
    [][/\ (trainer.pc = "steps" /\ trainer'.pc = "interrupted") =>
            StepOrderOfCutPass
       /\ (trainer.pc = "steps" /\ steps' = steps + 1) =>
        LET l == trainer'.last
        IN  /\ l.ran /\ ~l.raised
            /\ l.epsilon = epsilon
            /\ l.action \in Actions
            /\ env'.step_count = env.step_count + 1
            /\ env'.work_allocated = Allocation(l.action).work
            /\ l.stored.action = l.action
            /\ l.stored.state = EnvNetState(env)
            /\ l.stored.next_state = EnvNetState(env')
            /\ l.stored.done = (IF env'.done THEN 1 ELSE 0)
            /\ memory' = SimplePush(memory, trainer.memory_size, l.stored)
            /\ l.trained <=> Len(memory') >= train_config.batch_size
            /\ l.trained =>
                    /\ training_steps' = training_steps + 1
                    /\ optimizer_steps' = optimizer_steps + 1
                    /\ policy_net'.params # policy_net.params
                    /\ policy_net'.batches = policy_net.batches + 2
                    /\ Len(l.batch) = train_config.batch_size
                    /\ \A i \in 1 .. Len(l.batch) :
                          l.batch[i] \in Elems(memory')
            /\ ~l.trained =>
                    /\ training_steps' = training_steps
                    /\ policy_net' = policy_net
            /\ l.synced <=> steps % train_config.target_update_freq = 0
            /\ target_net' = IF l.synced THEN policy_net' ELSE target_net
            /\ trainer'.episode_reward = trainer.episode_reward + l.reward]_vars

C27_Witness ==
    /\ trainer.last.ran
    /\ trainer.last.trained
    /\ trainer.last.synced
    /\ Len(memory) = train_config.batch_size
    /\ memory[Len(memory)] = trainer.last.stored
    /\ \E i \in 1 .. Len(trainer.last.batch) :
            trainer.last.batch[i] = trainer.last.stored
    /\ target_net = policy_net

\* C28: when training was interrupted, every model file written so far is
\* on disk as a complete snapshot, and a best model that was recorded has
\* its file.
C28_InterruptKeepsSnapshot ==
    trainer.pc = "interrupted" =>
        /\ \A path \in DOMAIN disk : disk[path].complete
        /\ trainer.best_episode > 0 => BestPath \in DOMAIN disk

(***************************************************************************)
(* Claims about save_model and load_model (SpecPersist).                   *)
(***************************************************************************)
\* C29: after load_model has loaded a file save_model wrote, the policy
\* weights, the target weights, the optimizer state, epsilon, steps and
\* training_steps are those the saving agent held when it saved.
C29_SaveLoadRoundTrip ==
    (ret.op = "load_model" /\ ret.value = "True" /\ ret.path \in DOMAIN disk) =>
        AgentFields = disk[ret.path].fields

C29_Witness ==
    /\ ret.op = "load_model" /\ ret.value = "True"
    /\ ret.path \in DOMAIN disk
    /\ steps > training_steps
    /\ training_steps > 0
    /\ policy_net # target_net
    /\ epsilon = train_config.epsilon_end

(***************************************************************************)
(* Claims about the handler and the aggregation running together           *)
(* (SpecRace).                                                             *)
(***************************************************************************)
\* C24: whenever the aggregation reads the tables, it finds for each port
\* of the last reply the bandwidth and the counters either both as they were
\* before the reply was processed or both as they are after it.
C24_NoPartialStatsUpdate ==
    [][net_state' # net_state =>
        \A p \in DOMAIN handler.pre :
            PortPair(port_stats, current_bandwidth, p)
                \in {handler.pre[p], handler.post[p]}]_vars

C24_Witness ==
    /\ net_state.ran
    /\ handler.pc = "idle"
    /\ 1 \in DOMAIN handler.pre
    /\ PortPair(port_stats, current_bandwidth, 1) = handler.post[1]
    /\ handler.pre[1].bw # handler.post[1].bw
    /\ handler.pre[1].stat # handler.post[1].stat
    /\ handler.pre[1].bw # NoEntry
    /\ net_state.work_bw = handler.post[1].bw.rx + handler.post[1].bw.tx

====
